---------------------------- MODULE Spec2Model ----------------------------
(***************************************************************************)
(* Model of the heuristic AI-content detector of                           *)
(* src/server/app/api/ai_detector.py (class AIDetectionEngine).            *)
(*                                                                         *)
(* Texts are sequences of one-character strings.  Offsets are Python's:    *)
(* 0-based, a slice s[a:b] holds the characters a .. b-1.                  *)
(*                                                                         *)
(* The state is one call of one engine method: `op` names the method,      *)
(* `arg` is its argument and `ret` the value it returns.  A Call action    *)
(* draws the argument from a bounded set and runs the whole method; Return *)
(* hands control back to the caller.                                       *)
(*                                                                         *)
(* Calls of analyze_document in flight together on the shared engine have  *)
(* their own state: `engine` holds the attributes of detection_engine,     *)
(* `frames` the locals of each task's call, `history` the results the      *)
(* calls on each text have returned so far.                                *)
(***************************************************************************)
EXTENDS Integers, Sequences, FiniteSets, TLC

VARIABLES pc, op, arg, ret, engine, frames, history

vars == <<pc, op, arg, ret, engine, frames, history>>

(***************************************************************************)
(* Bounds of the model.                                                    *)
(***************************************************************************)
\* longest text handed to split_into_sentences and tokenize
MaxLen == 5
\* longest word sequence handed to calculate_ttr
MaxWords == 3
\* largest pattern-match count of one table in one sentence
MaxCount == 3
\* largest number of sentences of a document
MaxSent == 2
\* largest number of sentences of a document of long sentences
MaxLong == 3
\* longest text of the short ones handed to analyze_document
MaxTextLen == 4
\* longest list of texts handed to analyze_batch, beside the two long ones
MaxBatch == 2

(***************************************************************************)
(* Character classes of Python's re module on str patterns.                *)
(***************************************************************************)
UpperSeq == <<"A","B","C","D","E","F","G","H","I","J","K","L","M",
              "N","O","P","Q","R","S","T","U","V","W","X","Y","Z">>

LowerSeq == <<"a","b","c","d","e","f","g","h","i","j","k","l","m",
              "n","o","p","q","r","s","t","u","v","w","x","y","z">>

\* [A-Z]
Upper == {UpperSeq[i] : i \in 1..26}

\* [a-z]
Lower == {LowerSeq[i] : i \in 1..26}

\* [a-zA-Z]
Letters == Upper \cup Lower

Digits == {"0","1","2","3","4","5","6","7","8","9"}

\* \w restricted to ASCII: letters, digits and the underscore
WordChars == Letters \cup Digits \cup {"_"}

\* \s, and the characters str.strip() removes
Whitespace == {" ", "\t", "\n", "\r", "\f"}

\* [.!?]
Terminators == {".", "!", "?"}

\* the characters the modelled texts are written in
Alphabet == {"a", "B", ".", " ", "1"}

Texts == UNION {[1..n -> Alphabet] : n \in 0..MaxLen}

Max(S) == CHOOSE x \in S : \A y \in S : y <= x

Min(S) == CHOOSE x \in S : \A y \in S : x <= y

\* Python's s[a:b] for 0 <= a, b <= len(s)
Slice(s, a, b) == SubSeq(s, a + 1, b)

\* the character at 0-based offset i
At(s, i) == s[i + 1]

\* str.lower() of one character
LowerChar(c) ==
    IF c \in Upper THEN LowerSeq[CHOOSE i \in 1..26 : UpperSeq[i] = c] ELSE c

\* str.lower()
LowerText(s) == [i \in 1..Len(s) |-> LowerChar(s[i])]

RECURSIVE LStrip(_)
LStrip(s) ==
    IF s # <<>> /\ Head(s) \in Whitespace THEN LStrip(Tail(s)) ELSE s

RECURSIVE RStrip(_)
RStrip(s) ==
    IF s # <<>> /\ s[Len(s)] \in Whitespace
    THEN RStrip(SubSeq(s, 1, Len(s) - 1))
    ELSE s

\* str.strip()
Strip(s) == RStrip(LStrip(s))

\* the offset after the longest run of characters of class C that starts at i
RECURSIVE RunEnd(_, _, _)
RunEnd(s, i, C) ==
    IF i < Len(s) /\ At(s, i) \in C THEN RunEnd(s, i + 1, C) ELSE i

(***************************************************************************)
(* split_into_sentences: re.finditer(r'(?<=[.!?])\s+(?=[A-Z])', text).     *)
(***************************************************************************)
\* The end of the pattern's match starting at offset i, or -1.  The
\* lookbehind wants a terminator before i; \s+ is greedy and gives back
\* characters until the lookahead sees an uppercase letter.
BoundaryMatchAt(text, i) ==
    IF i >= 1 /\ At(text, i - 1) \in Terminators
    THEN LET j == RunEnd(text, i, Whitespace)
             ends == {e \in (i + 1)..j :
                         e < Len(text) /\ At(text, e) \in Upper}
         IN  IF ends = {} THEN -1 ELSE Max(ends)
    ELSE -1

\* the matches finditer yields when it scans from offset pos
RECURSIVE BoundaryMatches(_, _)
BoundaryMatches(text, pos) ==
    LET starts == {i \in pos..Len(text) : BoundaryMatchAt(text, i) >= 0}
    IN  IF starts = {} THEN <<>>
        ELSE LET i == Min(starts)
                 e == BoundaryMatchAt(text, i)
             IN  <<[start |-> i, end |-> e]>> \o BoundaryMatches(text, e)

\* the tuple appended for the candidate text[a:b]: its mutant records an
\* end one short
SentenceSpanShort(text, a, b) ==
    [text |-> Strip(Slice(text, a, b)), start |-> a, end |-> b - 1]

\* the tuple (sentence, a, b) appended for the candidate text[a:b]
SentenceSpan(text, a, b) ==
    [text |-> Strip(Slice(text, a, b)), start |-> a, end |-> b]

\* the for loop over the matches: the sentences and last_end after it
RECURSIVE SplitLoop(_, _, _, _)
SplitLoop(text, matches, sentences, last_end) ==
    IF matches = <<>> THEN [sentences |-> sentences, last_end |-> last_end]
    ELSE LET m == Head(matches)
             sp == SentenceSpan(text, last_end, m.start)
         IN  SplitLoop(text, Tail(matches),
                       IF sp.text # <<>> THEN Append(sentences, sp)
                                         ELSE sentences,
                       m.end)

\* the fallback without its test of text.strip()
SplitFallbackAlways(text, sentences) ==
    IF sentences = <<>> THEN <<SentenceSpan(text, 0, Len(text))>>
    ELSE sentences

\* "If no sentences found, treat entire text as one sentence"
SplitFallback(text, sentences) ==
    IF sentences = <<>> /\ Strip(text) # <<>>
    THEN <<[text |-> Strip(text), start |-> 0, end |-> Len(text)]>>
    ELSE sentences

\* the mutant of split_into_sentences: the text after the last match is
\* not added
split_into_sentences_without_rest(text) ==
    SplitFallback(text,
                  SplitLoop(text, BoundaryMatches(text, 0), <<>>, 0).sentences)

split_into_sentences(text) ==
    LET loop == SplitLoop(text, BoundaryMatches(text, 0), <<>>, 0)
        last == SentenceSpan(text, loop.last_end, Len(text))
        withLast == IF loop.last_end < Len(text) /\ last.text # <<>>
                    THEN Append(loop.sentences, last)
                    ELSE loop.sentences
    IN  SplitFallback(text, withLast)

(***************************************************************************)
(* tokenize: re.findall(r'\b[a-zA-Z]+\b', text.lower()).                   *)
(***************************************************************************)
\* \b at offset i: exactly one of the characters around i is a word character
WordBoundaryAt(s, i) ==
    (i > 0 /\ At(s, i - 1) \in WordChars)
        # (i < Len(s) /\ At(s, i) \in WordChars)

\* the mutant of WordMatchAt: the pattern without its two \b
LetterRunAt(s, i) ==
    LET j == RunEnd(s, i, Letters) IN IF j > i THEN j ELSE -1

\* The end of the pattern's match starting at offset i, or -1: [a-zA-Z]+ is
\* greedy and gives back letters until \b holds.
WordMatchAt(s, i) ==
    IF WordBoundaryAt(s, i)
    THEN LET j == RunEnd(s, i, Letters)
             ends == {e \in (i + 1)..j : WordBoundaryAt(s, e)}
         IN  IF ends = {} THEN -1 ELSE Max(ends)
    ELSE -1

\* the strings findall yields when it scans from offset pos
RECURSIVE FindWords(_, _)
FindWords(s, pos) ==
    LET starts == {i \in pos..(Len(s) - 1) : WordMatchAt(s, i) >= 0}
    IN  IF starts = {} THEN <<>>
        ELSE LET i == Min(starts)
                 e == WordMatchAt(s, i)
             IN  <<Slice(s, i, e)>> \o FindWords(s, e)

tokenize(text) == FindWords(LowerText(text), 0)

(***************************************************************************)
(* calculate_ttr.  A ratio is the pair [num, den] of an exact fraction.    *)
(***************************************************************************)
Range(s) == {s[i] : i \in 1..Len(s)}

\* the mutant of calculate_ttr: no test for the empty word list, the
\* division by len(words) = 0 read as 0/1
calculate_ttr_counting(words) ==
    [num |-> Len(words), den |-> IF words = <<>> THEN 1 ELSE Len(words)]

calculate_ttr(words) ==
    IF words = <<>> THEN [num |-> 0, den |-> 1]
    ELSE [num |-> Cardinality(Range(words)), den |-> Len(words)]

(***************************************************************************)
(* IEEE-754 binary64 arithmetic of analyze_sentence.  Every number the     *)
(* scorer computes is near a multiple of 0.05, so a double is the pair     *)
(* [k, e] that stands for  k/20 + e * Ulp57/20  with Ulp57 = 2^-57, the    *)
(* spacing of the doubles around 0.05.  [k, 0] is the decimal k/20 itself. *)
(***************************************************************************)
\* the exponent of the unit of e
UnitExp == 57

\* the one element of a singleton: Only({F(x) : x \in {v}}) is F(v) with v
\* evaluated once
Only(S) == CHOOSE x \in S : TRUE

RECURSIVE Pow2(_)
Pow2(n) == IF n = 0 THEN 1 ELSE 2 * Pow2(n - 1)

\* 2^n modulo m
RECURSIVE Pow2Mod(_, _)
Pow2Mod(n, m) ==
    IF n = 0 THEN 1 % m
    ELSE IF n % 2 = 0
         THEN LET h == Pow2Mod(n \div 2, m) IN (h * h) % m
         ELSE (2 * Pow2Mod(n - 1, m)) % m

\* x >= 2^j for the exact value x = k/20 + e units
AtLeastPow2(k, e, j) ==
    LET lhs == IF j >= 0 THEN k ELSE k * Pow2(0 - j)
        rhs == IF j >= 0 THEN 20 * Pow2(j) ELSE 20
    IN  lhs > rhs \/ (lhs = rhs /\ e >= 0)

\* p such that the doubles around x = k/20 + e units are 2^-p apart
RECURSIVE SpacingExp(_, _, _)
SpacingExp(k, e, p) ==
    IF AtLeastPow2(k, e, 52 - p) THEN p ELSE SpacingExp(k, e, p + 1)

\* round-to-nearest, ties-to-even, of the exact value k/20 + e units
RoundExact(k, e) ==
    IF k = 0 /\ e = 0 THEN [k |-> 0, e |-> 0]
    ELSE LET p == SpacingExp(k, e, 48)
             scale == Pow2(UnitExp - p)
             \* the spacing of the doubles, in units
             grid == 20 * scale
             \* k/20 modulo the spacing, in units
             base == scale * ((k * Pow2Mod(p, 20)) % 20)
             r == (base + e) % grid
             \* parity of the significand of the double below
             below == (((k * Pow2Mod(p, 40)) % 40) \div 20
                       + (base + e - r) \div grid) % 2
         IN  IF 2 * r < grid \/ (2 * r = grid /\ below = 0)
             THEN [k |-> k, e |-> e - r]
             ELSE [k |-> k, e |-> e + grid - r]

\* the double nearest to k/20 + e units
RoundDouble(k, e) == Only({RoundExact(x[1], x[2]) : x \in {<<k, e>>}})

\* the double a decimal literal k/20 denotes (0.1 is Literal(2))
Literal(k) == RoundDouble(k, 0)

\* a + b
FAdd(a, b) ==
    Only({RoundDouble(x[1].k + x[2].k, x[1].e + x[2].e) : x \in {<<a, b>>}})

\* n * a for an int n
IMul(n, a) == Only({RoundDouble(n * x.k, n * x.e) : x \in {a}})

\* a < b
FLess(a, b) == a.k < b.k \/ (a.k = b.k /\ a.e < b.e)

\* Python's min(a, b)
FMin(a, b) ==
    Only({IF FLess(x[2], x[1]) THEN x[2] ELSE x[1] : x \in {<<a, b>>}})

\* round(a * 100, 2) in hundredths of a percent: the error of a is far
\* below the half cent that would move the rounding
PercentRounded(a) == 500 * a.k

(***************************************************************************)
(* analyze_sentence.  The argument is what the method reads off the        *)
(* sentence text: the length of tokenize(sentence), the four               *)
(* count_pattern_matches results it uses and the number of formal words.   *)
(***************************************************************************)
Zero == [k |-> 0, e |-> 0]

\* the mutant of TransitionAdd: the cap forgotten
TransitionAddUncapped(transition_count) ==
    IMul(transition_count, Literal(2))

\* min(transition_count * 0.1, 0.3)
TransitionAdd(transition_count) ==
    FMin(IMul(transition_count, Literal(2)), Literal(6))

\* min(phrase_count * 0.15, 0.4)
PhraseAdd(phrase_count) == FMin(IMul(phrase_count, Literal(3)), Literal(8))

\* min(hedging_count * 0.1, 0.2)
HedgingAdd(hedging_count) == FMin(IMul(hedging_count, Literal(2)), Literal(4))

\* min(formal_count * 0.1, 0.2)
FormalAdd(formal_count) == FMin(IMul(formal_count, Literal(2)), Literal(4))

\* the mutant of PassiveApplies: a ratio of 0.1 is enough
PassiveAppliesFromTenth(passive_count, word_count) ==
    passive_count > 0 /\ word_count > 0 /\ 10 * passive_count >= word_count

\* passive_count > 0 and word_count > 0 and passive_count / word_count > 0.1:
\* the quotient of two small ints is never within a rounding error of 0.1
\* unless it is 1/10, and 1/10 rounds to the double 0.1
PassiveApplies(passive_count, word_count) ==
    passive_count > 0 /\ word_count > 0 /\ 10 * passive_count > word_count

\* 15 <= word_count <= 25
TypicalLength(word_count) == 15 <= word_count /\ word_count <= 25

\* what each of the six checks adds to ai_score, in the order of the code
Increments(s) ==
    [transition |-> IF s.transition_count > 0
                    THEN TransitionAdd(s.transition_count) ELSE Zero,
     phrase     |-> IF s.phrase_count > 0
                    THEN PhraseAdd(s.phrase_count) ELSE Zero,
     hedging    |-> IF s.hedging_count > 0
                    THEN HedgingAdd(s.hedging_count) ELSE Zero,
     passive    |-> IF PassiveApplies(s.passive_count, s.word_count)
                    THEN Literal(2) ELSE Zero,
     length     |-> IF TypicalLength(s.word_count) THEN Literal(1) ELSE Zero,
     formal     |-> IF s.formal_count > 0
                    THEN FormalAdd(s.formal_count) ELSE Zero]

\* ai_score += x, skipped when the check does not apply
AddIf(applies, score, x) == IF applies THEN FAdd(score, x) ELSE score

\* the six checks in the order of the code: whether each applies and what
\* it adds
Checks(s) ==
    Only({<<[applies |-> s.transition_count > 0, add |-> inc.transition],
            [applies |-> s.phrase_count > 0, add |-> inc.phrase],
            [applies |-> s.hedging_count > 0, add |-> inc.hedging],
            [applies |-> PassiveApplies(s.passive_count, s.word_count),
             add |-> inc.passive],
            [applies |-> TypicalLength(s.word_count), add |-> inc.length],
            [applies |-> s.formal_count > 0, add |-> inc.formal]>> :
              inc \in {Increments(s)}})

\* ai_score after the checks of the sequence, starting from score
RECURSIVE Accumulate(_, _)
Accumulate(score, checks) ==
    IF checks = <<>> THEN score
    ELSE Only({Accumulate(next, Tail(checks)) :
                 next \in {AddIf(Head(checks).applies, score,
                                 Head(checks).add)}})

\* ai_score before the cap at 1.0
RawScore(s) == Accumulate(Zero, Checks(s))

\* the mutant of Indicators: the length tag appended after the formal words
IndicatorsLengthLast(s) ==
    (IF s.transition_count > 0
       THEN <<[tag |-> "transition_words", count |-> s.transition_count]>>
       ELSE <<>>)
    \o (IF s.phrase_count > 0
       THEN <<[tag |-> "ai_phrases", count |-> s.phrase_count]>>
       ELSE <<>>)
    \o (IF s.hedging_count > 0
       THEN <<[tag |-> "hedging", count |-> s.hedging_count]>>
       ELSE <<>>)
    \o (IF PassiveApplies(s.passive_count, s.word_count)
       THEN <<[tag |-> "passive_voice", count |-> s.passive_count]>>
       ELSE <<>>)
    \o (IF s.formal_count > 0
       THEN <<[tag |-> "formal_words", count |-> s.formal_count]>>
       ELSE <<>>)
    \o (IF TypicalLength(s.word_count)
       THEN <<[tag |-> "typical_ai_length", count |-> 0]>>
       ELSE <<>>)

\* the tags appended to indicators, in the order of the code
Indicators(s) ==
    (IF s.transition_count > 0
       THEN <<[tag |-> "transition_words", count |-> s.transition_count]>>
       ELSE <<>>)
    \o (IF s.phrase_count > 0
       THEN <<[tag |-> "ai_phrases", count |-> s.phrase_count]>>
       ELSE <<>>)
    \o (IF s.hedging_count > 0
       THEN <<[tag |-> "hedging", count |-> s.hedging_count]>>
       ELSE <<>>)
    \o (IF PassiveApplies(s.passive_count, s.word_count)
       THEN <<[tag |-> "passive_voice", count |-> s.passive_count]>>
       ELSE <<>>)
    \o (IF TypicalLength(s.word_count)
       THEN <<[tag |-> "typical_ai_length", count |-> 0]>>
       ELSE <<>>)
    \o (IF s.formal_count > 0
       THEN <<[tag |-> "formal_words", count |-> s.formal_count]>>
       ELSE <<>>)

\* if ai_score >= 0.6 ... elif ai_score <= 0.3 ... else
Classify(ai_score) ==
    IF ~FLess(ai_score, Literal(12)) THEN "ai"
    ELSE IF ~FLess(Literal(6), ai_score) THEN "human"
    ELSE "uncertain"

\* the mutant of analyze_sentence: the cap at 1.0 left out
analyze_sentence_uncapped(s) ==
    Only({[ai_probability |-> PercentRounded(ai_score),
           classification |-> Classify(ai_score),
           indicators     |-> Indicators(s),
           ai_score       |-> ai_score,
           increments     |-> Increments(s)] :
              ai_score \in {RawScore(s)}})

\* The SentenceAnalysis returned (ai_probability in hundredths of a
\* percent), with the locals ai_score and the six increments beside it.
analyze_sentence(s) ==
    Only({[ai_probability |-> PercentRounded(ai_score),
           classification |-> Classify(ai_score),
           indicators     |-> Indicators(s),
           ai_score       |-> ai_score,
           increments     |-> Increments(s)] :
              ai_score \in {FMin(RawScore(s), Literal(20))}})


(***************************************************************************)
(* Document-level arithmetic.                                              *)
(*                                                                         *)
(* The metrics are exact fractions; a value rounded to two decimals is an  *)
(* integer number of hundredths, one rounded to four decimals an integer   *)
(* number of ten-thousandths.  The doubles the code rounds carry a         *)
(* rounding error far below the last decimal kept, so round(x, d) is the   *)
(* nearest decimal unless the exact value lies halfway between two: there  *)
(* the sign of the error decides, and the model admits both neighbours.    *)
(* Whatever admits several outcomes is a set of outcomes.                  *)
(***************************************************************************)
RECURSIVE Sum(_)
Sum(xs) == IF xs = <<>> THEN 0 ELSE Head(xs) + Sum(Tail(xs))

Squares(xs) == [i \in 1..Len(xs) |-> xs[i] * xs[i]]

\* round(num / den) for den > 0: the integers within 1/2 of the fraction
RoundQ(num, den) ==
    LET up == (2 * num + den) \div (2 * den)
    IN  IF (2 * num + den) % (2 * den) = 0 THEN {up - 1, up} ELSE {up}

\* the largest r in lo..hi with (2r - 1)^2 * den <= 4 * num, or lo
RECURSIVE SqrtSearch(_, _, _, _)
SqrtSearch(num, den, lo, hi) ==
    IF lo >= hi THEN lo
    ELSE Only({IF (2 * mid - 1) * (2 * mid - 1) * den <= 4 * num
               THEN SqrtSearch(num, den, mid, hi)
               ELSE SqrtSearch(num, den, lo, mid - 1) :
                  mid \in {(lo + hi + 1) \div 2}})

\* round(sqrt(num / den)) for an r known to be at most hi
RoundSqrt(num, den, hi) ==
    UNION {UNION {IF r > 0 /\ (2 * r - 1) * (2 * r - 1) * x[2] = 4 * x[1]
                  THEN {r - 1, r} ELSE {r} :
                     r \in {SqrtSearch(x[1], x[2], 0, hi)}} :
           x \in {<<num, den>>}}

\* max(0, min(hi, num / den)) as a fraction, for den > 0
ClampQ(num, den, hi) ==
    IF num < 0 THEN [num |-> 0, den |-> 1]
    ELSE IF num > hi * den THEN [num |-> hi, den |-> 1]
    ELSE [num |-> num, den |-> den]

\* statistics.mean raises StatisticsError on no data
StatMeanRaises(xs) == Len(xs) < 1

\* statistics.stdev raises StatisticsError on fewer than two data points
StatStdevRaises(xs) == Len(xs) < 2

\* statistics.mean(xs)
StatMean(xs) == [num |-> Sum(xs), den |-> Len(xs)]

\* the mutant of StatVariance: the population variance, of pstdev
StatVariancePopulation(xs) ==
    [num |-> Len(xs) * Sum(Squares(xs)) - Sum(xs) * Sum(xs),
     den |-> Len(xs) * Len(xs)]

\* the square of statistics.stdev(xs): the sample variance
StatVariance(xs) ==
    [num |-> Len(xs) * Sum(Squares(xs)) - Sum(xs) * Sum(xs),
     den |-> Len(xs) * (Len(xs) - 1)]

ZeroQ == [num |-> 0, den |-> 1]

SentenceLengths(sentences) ==
    [i \in 1..Len(sentences) |-> sentences[i].word_count]

\* the mutant of calculate_sentence_length_stats: the test for fewer than
\* two lengths forgotten
calculate_sentence_length_stats_unguarded(sentences) ==
    IF sentences = <<>> THEN [raised |-> FALSE, mean |-> ZeroQ, var |-> ZeroQ]
    ELSE LET lengths == SentenceLengths(sentences)
         IN  IF StatMeanRaises(lengths) \/ StatStdevRaises(lengths)
             THEN [raised |-> TRUE, mean |-> ZeroQ, var |-> ZeroQ]
             ELSE [raised |-> FALSE, mean |-> StatMean(lengths),
                   var |-> StatVariance(lengths)]

\* (mean_length, std_length), the latter as its square
calculate_sentence_length_stats(sentences) ==
    IF sentences = <<>> THEN [raised |-> FALSE, mean |-> ZeroQ, var |-> ZeroQ]
    ELSE LET lengths == SentenceLengths(sentences)
         IN  IF Len(lengths) < 2
             THEN [raised |-> FALSE,
                   mean |-> IF lengths # <<>>
                            THEN [num |-> lengths[1], den |-> 1] ELSE ZeroQ,
                   var |-> ZeroQ]
             ELSE IF StatMeanRaises(lengths) \/ StatStdevRaises(lengths)
             THEN [raised |-> TRUE, mean |-> ZeroQ, var |-> ZeroQ]
             ELSE [raised |-> FALSE, mean |-> StatMean(lengths),
                   var |-> StatVariance(lengths)]

(***************************************************************************)
(* analyze_document.  The argument is what the method reads off the text:  *)
(* per sentence of split_into_sentences(text) what analyze_sentence reads  *)
(* off it, and the number of distinct words of tokenize(text).  The        *)
(* sentences are cut at whitespace and no pattern holds a terminator, so   *)
(* the words and the pattern matches of the text are those of its          *)
(* sentences taken together.  punctuation_diversity, avg_word_length,      *)
(* complex_sentence_ratio and total_characters are stored in the metrics   *)
(* and read by nothing; they are left out.                                 *)
(***************************************************************************)
\* tokenize(text), up to the names of the words: unique_words distinct
\* words, the last one repeated
AllWords(doc) ==
    [i \in 1..Sum(SentenceLengths(doc.sentences)) |->
        IF i <= doc.unique_words THEN i ELSE doc.unique_words]

PassiveCounts(sentences) ==
    [i \in 1..Len(sentences) |-> sentences[i].passive_count]

TransitionCounts(sentences) ==
    [i \in 1..Len(sentences) |-> sentences[i].transition_count]

\* total / len(sentences) if sentences else 0
PerSentence(total, sentences) ==
    IF sentences # <<>> THEN [num |-> total, den |-> Len(sentences)]
    ELSE ZeroQ

\* The DocumentMetrics built from the rounded values: lengths in
\* hundredths of a word, ratios in ten-thousandths.
DocumentMetricsOf(doc) ==
    LET stats == calculate_sentence_length_stats(doc.sentences)
        lengths == SentenceLengths(doc.sentences)
        all_words == AllWords(doc)
        ttr == calculate_ttr(all_words)
        passive_ratio ==
            PerSentence(Sum(PassiveCounts(doc.sentences)), doc.sentences)
        transition_ratio ==
            PerSentence(Sum(TransitionCounts(doc.sentences)), doc.sentences)
    IN  {[total_sentences       |-> Len(doc.sentences),
          total_words           |-> Len(all_words),
          avg_sentence_length   |-> avg,
          sentence_length_std   |-> std,
          type_token_ratio      |-> t,
          passive_voice_ratio   |-> pr,
          transition_word_ratio |-> tr] :
            avg \in RoundQ(100 * stats.mean.num, stats.mean.den),
            std \in RoundSqrt(10000 * stats.var.num, stats.var.den,
                              100 * Max(Range(lengths) \cup {0})),
            t \in RoundQ(10000 * ttr.num, ttr.den),
            pr \in RoundQ(10000 * passive_ratio.num, passive_ratio.den),
            tr \in RoundQ(10000 * transition_ratio.num,
                          transition_ratio.den)}

\* the mutant of Score: round(min(100, num / den), 2), the lower clamp left
\* out
ScoreCappedOnly(num, den) ==
    IF num > 10000 * den THEN {10000}
    ELSE LET q == num \div den
             r == num % den
         IN  IF 2 * r = den THEN {q, q + 1}
             ELSE IF 2 * r > den THEN {q + 1} ELSE {q}

\* round(max(0, min(100, num / den)), 2) in hundredths
Score(num, den) ==
    LET c == ClampQ(num, den, 10000) IN RoundQ(c.num, c.den)

\* sum(int(ind.split(':')[1]) ... if ind.startswith('ai_phrases:'))
RECURSIVE TaggedCount(_, _)
TaggedCount(indicators, tag) ==
    IF indicators = <<>> THEN 0
    ELSE (IF Head(indicators).tag = tag THEN Head(indicators).count ELSE 0)
            + TaggedCount(Tail(indicators), tag)

RECURSIVE TotalTagged(_, _)
TotalTagged(analyses, tag) ==
    IF analyses = <<>> THEN 0
    ELSE TaggedCount(Head(analyses).indicators, tag)
            + TotalTagged(Tail(analyses), tag)

Probabilities(analyses) ==
    [i \in 1..Len(analyses) |-> analyses[i].ai_probability]

\* _calculate_analysis_breakdown: the six signals in hundredths of a percent
calculate_analysis_breakdown(metrics, sentence_analyses) ==
    LET uniformity ==
            IF metrics.avg_sentence_length > 0
            \* (0.6 - std / avg) / 0.6 * 100
            THEN Score(30000 * metrics.avg_sentence_length
                          - 50000 * metrics.sentence_length_std,
                       3 * metrics.avg_sentence_length)
            ELSE {5000}
        \* (0.7 - ttr) / 0.4 * 100
        vocabulary == Score(35000 - 5 * metrics.type_token_ratio, 2)
        total_ai_phrases == TotalTagged(sentence_analyses, "ai_phrases")
        \* min(100, total_ai_phrases / total_sentences * 200)
        phrases ==
            IF metrics.total_sentences > 0
            THEN Score(20000 * total_ai_phrases, metrics.total_sentences)
            ELSE {0}
        \* min(100, transition_word_ratio * 150)
        transition == Score(3 * metrics.transition_word_ratio, 2)
        \* min(100, passive_voice_ratio * 100)
        passive == Score(metrics.passive_voice_ratio, 1)
        average ==
            IF sentence_analyses # <<>>
            THEN RoundQ(Sum(Probabilities(sentence_analyses)),
                        Len(sentence_analyses))
            ELSE {5000}
    IN  {[sentence_uniformity  |-> u,
          vocabulary_diversity |-> v,
          ai_phrases           |-> ph,
          transition_density   |-> tr,
          passive_voice        |-> pa,
          sentence_ai_avg      |-> av] :
            u \in uniformity, v \in vocabulary, ph \in phrases,
            tr \in transition, pa \in passive, av \in average}

\* the mutant of Weights: 0.30 for ai_phrases, the weights summing to 1.05
WeightsHeavy ==
    [sentence_uniformity  |-> 15,
     vocabulary_diversity |-> 15,
     ai_phrases           |-> 30,
     transition_density   |-> 15,
     passive_voice        |-> 10,
     sentence_ai_avg      |-> 20]

\* the weights, in hundredths
Weights ==
    [sentence_uniformity  |-> 15,
     vocabulary_diversity |-> 15,
     ai_phrases           |-> 25,
     transition_density   |-> 15,
     passive_voice        |-> 10,
     sentence_ai_avg      |-> 20]

\* the mutant of WeightedSum: the six signals weighted alike
WeightedSumEven(breakdown) ==
    16 * (breakdown.sentence_uniformity + breakdown.vocabulary_diversity
          + breakdown.ai_phrases + breakdown.transition_density
          + breakdown.passive_voice)
    + 20 * breakdown.sentence_ai_avg

\* sum(analysis_breakdown.get(key, 0) * weight ...), exactly, in
\* ten-thousandths of a percent
WeightedSum(breakdown) ==
    breakdown.sentence_uniformity * Weights.sentence_uniformity
    + breakdown.vocabulary_diversity * Weights.vocabulary_diversity
    + breakdown.ai_phrases * Weights.ai_phrases
    + breakdown.transition_density * Weights.transition_density
    + breakdown.passive_voice * Weights.passive_voice
    + breakdown.sentence_ai_avg * Weights.sentence_ai_avg

\* 100 percent in ten-thousandths of a percent
Hundred == 1000000

\* A double computed by float arithmetic from an exact value v (in
\* ten-thousandths) is [v, err]: err is the sign of its rounding error.
\* The double can be v itself only if v / 10000 is a binary fraction.
ErrorSigns(v) == IF v % 625 = 0 THEN {-1, 0, 1} ELSE {-1, 1}

\* x >= t for a double x and a decimal literal t that is a binary fraction
AtLeast(x, t) == x.v > t \/ (x.v = t /\ x.err >= 0)

\* max(0, min(100, x))
ClampProbability(x) ==
    IF x.v > Hundred \/ (x.v = Hundred /\ x.err > 0)
    THEN [v |-> Hundred, err |-> 0]
    ELSE IF x.v < 0 \/ (x.v = 0 /\ x.err < 0) THEN [v |-> 0, err |-> 0]
    ELSE x

\* round(x, 2) in hundredths: halfway, the error decides; a double that is
\* exactly halfway rounds to the even neighbour
Round2(x) ==
    IF x.v % 100 = 50
    THEN LET down == x.v \div 100
         IN  IF x.err > 0 THEN down + 1
             ELSE IF x.err < 0 THEN down
             ELSE IF down % 2 = 0 THEN down ELSE down + 1
    ELSE (x.v + 50) \div 100

\* the doubles 100 - x can be
Complement(x) ==
    {[v |-> Hundred - x.v, err |-> e] :
        e \in IF x.err = 0 THEN {0} ELSE ErrorSigns(Hundred - x.v)}

\* if ai_probability >= 70 ... elif >= 50 ... elif >= 30 ... else
Verdict(x) ==
    IF AtLeast(x, 700000) THEN "Likely AI-generated"
    ELSE IF AtLeast(x, 500000) THEN "Mixed/Uncertain - Contains AI patterns"
    ELSE IF AtLeast(x, 300000)
         THEN "Mostly human-written with some AI assistance"
    ELSE "Likely human-written"

\* what analyze_sentence would read off the first i sentences taken as one
Carried(sentences, i) ==
    LET upTo(field) == Sum([j \in 1..i |-> sentences[j][field]])
    IN  [word_count       |-> upTo("word_count"),
         transition_count |-> upTo("transition_count"),
         phrase_count     |-> upTo("phrase_count"),
         hedging_count    |-> upTo("hedging_count"),
         passive_count    |-> upTo("passive_count"),
         formal_count     |-> upTo("formal_count")]

\* the mutant of SentenceAnalyses: the counts of a sentence are not reset
\* before the next one
SentenceAnalysesCarried(sentences) ==
    [i \in 1..Len(sentences) |-> analyze_sentence(Carried(sentences, i))]

\* for sent_text, start, end in sentences: analyze_sentence(sent_text, ...)
SentenceAnalyses(sentences) ==
    [i \in 1..Len(sentences) |-> analyze_sentence(sentences[i])]

\* [analysis_breakdown[k] for k in weights.keys() if k in analysis_breakdown]
SignalValues(breakdown) ==
    <<breakdown.sentence_uniformity, breakdown.vocabulary_diversity,
      breakdown.ai_phrases, breakdown.transition_density,
      breakdown.passive_voice, breakdown.sentence_ai_avg>>

\* the sum of (x - y)^2 over the pairs of xs: n (n - 1) times the sample
\* variance of xs
PairwiseSquares(xs) ==
    Sum([k \in 1..(Len(xs) * Len(xs)) |->
            LET i == 1 + ((k - 1) \div Len(xs))
                j == 1 + ((k - 1) % Len(xs))
            IN  IF i < j THEN (xs[i] - xs[j]) * (xs[i] - xs[j]) ELSE 0])

\* the mutant of HalfDivisor: the population variance, n its divisor
HalfDivisorPopulation(n) == (n * n) \div 2

\* half the divisor n (n - 1) that turns PairwiseSquares into the sample
\* variance
HalfDivisor(n) == (n * (n - 1)) \div 2

\* the largest r in lo..hi with (r - 1/2)^2 <= total / (2 half), or lo
RECURSIVE StdevSearch(_, _, _, _)
StdevSearch(total, half, lo, hi) ==
    IF lo >= hi THEN lo
    ELSE Only({IF (2 * mid - 1) * (2 * mid - 1) * half <= 2 * total
               THEN StdevSearch(total, half, mid, hi)
               ELSE StdevSearch(total, half, lo, mid - 1) :
                  mid \in {(lo + hi + 1) \div 2}})

\* round(statistics.stdev(xs), 2) for values of 0..100 in hundredths: no
\* standard deviation of such values lies halfway between two hundredths
StdevRounded(xs) ==
    StdevSearch(PairwiseSquares(xs), HalfDivisor(Len(xs)), 0, 5478)

\* round(confidence, 2) in hundredths: max(50, 100 - signal_std) of two
\* signals or more, 60 otherwise
Confidence(breakdown) ==
    Only({IF Len(signal_values) > 1
          THEN Max({5000, 10000 - StdevRounded(signal_values)})
          ELSE 6000 :
             signal_values \in {SignalValues(breakdown)}})

\* the DetectionResult built from the locals (probabilities in hundredths of
\* a percent), with the local weighted sum beside it
DetectionResultOf(sentence_analyses, metrics, breakdown, ai, human) ==
    [raised               |-> FALSE,
     ai_probability       |-> Round2(ai),
     human_probability    |-> Round2(human),
     verdict              |-> Verdict(ai),
     confidence           |-> Confidence(breakdown),
     highlighted_sections |-> sentence_analyses,
     document_metrics     |-> metrics,
     analysis_breakdown   |-> breakdown,
     weighted_sum         |-> WeightedSum(breakdown)]

\* The doubles the weighted sum can be.  It is 0 only when the six signals
\* are 0 and 100 only when they are 100: the products are then 0.0, and
\* 15.0, 15.0, 25.0, 15.0, 10.0 and 20.0, and their sum is exact.
WeightedSums(breakdown) ==
    {[v |-> WeightedSum(breakdown), err |-> e] :
        e \in IF WeightedSum(breakdown) \in {0, Hundred} THEN {0}
              ELSE ErrorSigns(WeightedSum(breakdown))}

\* the doubles the clamped weighted sum can be
ProbabilitiesOf(breakdown) ==
    {ClampProbability(x) : x \in WeightedSums(breakdown)}

\* The DetectionResults the call can return; [raised |-> TRUE] when the
\* call raises.
analyze_document(doc) ==
    IF calculate_sentence_length_stats(doc.sentences).raised
    THEN {[raised |-> TRUE]}
    ELSE UNION {UNION {UNION {UNION {
            {DetectionResultOf(sa, m, b, ai, h) : h \in Complement(ai)} :
            ai \in ProbabilitiesOf(b)} :
            b \in calculate_analysis_breakdown(m, sa)} :
            m \in DocumentMetricsOf(doc)} :
            sa \in {SentenceAnalyses(doc.sentences)}}

(***************************************************************************)
(* The calls.                                                              *)
(***************************************************************************)
\* the words calculate_ttr is called with
Vocabulary == {"a", "b", "c"}

WordLists == UNION {[1..n -> Vocabulary] : n \in 0..MaxWords}

\* the word counts of the sentences analyze_sentence is called with
SentenceWordCounts == {0, 1, 8, 9, 10, 14, 15, 25, 26}

\* What analyze_sentence can read off a sentence: a pattern match holds at
\* least one word, and the formal words are among the words.
SentenceInputs ==
    {s \in [word_count       : SentenceWordCounts,
            transition_count : 0..MaxCount,
            phrase_count     : 0..MaxCount,
            hedging_count    : 0..MaxCount,
            passive_count    : 0..MaxCount,
            formal_count     : 0..MaxCount] :
        /\ s.formal_count <= s.word_count
        /\ (s.transition_count + s.phrase_count + s.hedging_count
              + s.passive_count > 0) => s.word_count > 0}

\* what analyze_sentence reads off a sentence of a document
Features(words, transitions, phrases, hedgings, passives, formals) ==
    [word_count       |-> words,
     transition_count |-> transitions,
     phrase_count     |-> phrases,
     hedging_count    |-> hedgings,
     passive_count    |-> passives,
     formal_count     |-> formals]

\* The sentences the modelled documents are made of:
\*   "?!"                                      no word
\*   "It go red and."                          four plain words
\*   "Cat a cat day cat."                      five plain words
\*   "Hence however."                          two transition words
\*   "Hence however we navigate."              two transitions, one AI phrase
\*   "However, it seems that it may be fine."  a transition, two hedgings
\*   "Mat is taken."                           a passive among three words
\*   "We utilize tools."                       an AI phrase that is a formal word
DocSentences ==
    {Features(0, 0, 0, 0, 0, 0),
     Features(4, 0, 0, 0, 0, 0),
     Features(5, 0, 0, 0, 0, 0),
     Features(2, 2, 0, 0, 0, 0),
     Features(4, 2, 1, 0, 0, 0),
     Features(8, 1, 0, 2, 0, 0),
     Features(3, 0, 0, 0, 1, 0),
     Features(3, 0, 1, 0, 0, 1)}

\* a text of at most MaxSent sentences; it has a distinct word if it has a
\* word at all
DocInputs ==
    UNION {{[sentences |-> ss, unique_words |-> u] :
               u \in IF Sum(SentenceLengths(ss)) = 0 THEN {0}
                     ELSE 1..Sum(SentenceLengths(ss))} :
           ss \in UNION {[1..n -> DocSentences] : n \in 0..MaxSent}}

\* The sentences of the longer modelled documents: 12, 35 and 51 plain
\* words, no pattern matched ("Qaaax qaabx ... qaalx." and so on).
LongSentences ==
    {Features(12, 0, 0, 0, 0, 0),
     Features(35, 0, 0, 0, 0, 0),
     Features(51, 0, 0, 0, 0, 0)}

\* a text of at most MaxLong such sentences, all its words distinct
LongDocInputs ==
    {[sentences |-> ss, unique_words |-> Sum(SentenceLengths(ss))] :
        ss \in UNION {[1..n -> LongSentences] : n \in 1..MaxLong}}

\* "Furthermore, moreover, hence it seems that it may be fine, we utilize
\* and leverage and navigate what is taken and was added.", four times: 22
\* words a sentence, 19 distinct words in all; every signal is 100.
SaturatedDocInputs ==
    {[sentences |-> [i \in 1..4 |-> Features(22, 3, 3, 2, 2, 2)],
      unique_words |-> 19]}

(***************************************************************************)
(* The pattern tables and count_pattern_matches, on texts.                 *)
(*                                                                         *)
(* __init__ compiles every pattern with re.IGNORECASE.  A pattern of the   *)
(* tables is one of two shapes: \b, literal characters, \b; or \b, an      *)
(* auxiliary, \s+, \w+, a two-letter ending, \b.                           *)
(***************************************************************************)
LiteralPattern(chars) == [kind |-> "literal", chars |-> chars]

ParticiplePattern(ending) == [kind |-> "participle", ending |-> ending]

\* the compiled AI_TRANSITION_PATTERNS
AI_TRANSITION_PATTERNS ==
    <<
      \* \bfurthermore\b
      LiteralPattern(<<
        "f", "u", "r", "t", "h", "e", "r", "m", "o", "r", "e">>),
      \* \bmoreover\b
      LiteralPattern(<<
        "m", "o", "r", "e", "o", "v", "e", "r">>),
      \* \badditionally\b
      LiteralPattern(<<
        "a", "d", "d", "i", "t", "i", "o", "n", "a", "l", "l", "y">>),
      \* \bin conclusion\b
      LiteralPattern(<<
        "i", "n", " ", "c", "o", "n", "c", "l", "u", "s", "i", "o", "n">>),
      \* \bto summarize\b
      LiteralPattern(<<
        "t", "o", " ", "s", "u", "m", "m", "a", "r", "i", "z", "e">>),
      \* \bin summary\b
      LiteralPattern(<<
        "i", "n", " ", "s", "u", "m", "m", "a", "r", "y">>),
      \* \bconsequently\b
      LiteralPattern(<<
        "c", "o", "n", "s", "e", "q", "u", "e", "n", "t", "l", "y">>),
      \* \btherefore\b
      LiteralPattern(<<
        "t", "h", "e", "r", "e", "f", "o", "r", "e">>),
      \* \bhence\b
      LiteralPattern(<<
        "h", "e", "n", "c", "e">>),
      \* \bit is worth noting\b
      LiteralPattern(<<
        "i", "t", " ", "i", "s", " ", "w", "o", "r", "t", "h", " ", "n",
        "o", "t", "i", "n", "g">>),
      \* \bit is important to\b
      LiteralPattern(<<
        "i", "t", " ", "i", "s", " ", "i", "m", "p", "o", "r", "t", "a",
        "n", "t", " ", "t", "o">>),
      \* \bnevertheless\b
      LiteralPattern(<<
        "n", "e", "v", "e", "r", "t", "h", "e", "l", "e", "s", "s">>),
      \* \bnonetheless\b
      LiteralPattern(<<
        "n", "o", "n", "e", "t", "h", "e", "l", "e", "s", "s">>),
      \* \bhowever\b
      LiteralPattern(<<
        "h", "o", "w", "e", "v", "e", "r">>),
      \* \bon the other hand\b
      LiteralPattern(<<
        "o", "n", " ", "t", "h", "e", " ", "o", "t", "h", "e", "r", " ",
        "h", "a", "n", "d">>),
      \* \bin contrast\b
      LiteralPattern(<<
        "i", "n", " ", "c", "o", "n", "t", "r", "a", "s", "t">>),
      \* \bsignificantly\b
      LiteralPattern(<<
        "s", "i", "g", "n", "i", "f", "i", "c", "a", "n", "t", "l", "y">>),
      \* \bnotably\b
      LiteralPattern(<<
        "n", "o", "t", "a", "b", "l", "y">>),
      \* \bspecifically\b
      LiteralPattern(<<
        "s", "p", "e", "c", "i", "f", "i", "c", "a", "l", "l", "y">>),
      \* \bin this context\b
      LiteralPattern(<<
        "i", "n", " ", "t", "h", "i", "s", " ", "c", "o", "n", "t", "e",
        "x", "t">>),
      \* \bin this regard\b
      LiteralPattern(<<
        "i", "n", " ", "t", "h", "i", "s", " ", "r", "e", "g", "a", "r", "d">>),
      \* \bas mentioned\b
      LiteralPattern(<<
        "a", "s", " ", "m", "e", "n", "t", "i", "o", "n", "e", "d">>),
      \* \bas discussed\b
      LiteralPattern(<<
        "a", "s", " ", "d", "i", "s", "c", "u", "s", "s", "e", "d">>),
      \* \bas noted\b
      LiteralPattern(<<
        "a", "s", " ", "n", "o", "t", "e", "d">>)
    >>

\* the compiled AI_PHRASE_PATTERNS
AI_PHRASE_PATTERNS ==
    <<
      \* \bit is essential to\b
      LiteralPattern(<<
        "i", "t", " ", "i", "s", " ", "e", "s", "s", "e", "n", "t", "i",
        "a", "l", " ", "t", "o">>),
      \* \bit is crucial to\b
      LiteralPattern(<<
        "i", "t", " ", "i", "s", " ", "c", "r", "u", "c", "i", "a", "l",
        " ", "t", "o">>),
      \* \bthis highlights\b
      LiteralPattern(<<
        "t", "h", "i", "s", " ", "h", "i", "g", "h", "l", "i", "g", "h",
        "t", "s">>),
      \* \bthis demonstrates\b
      LiteralPattern(<<
        "t", "h", "i", "s", " ", "d", "e", "m", "o", "n", "s", "t", "r",
        "a", "t", "e", "s">>),
      \* \bthis underscores\b
      LiteralPattern(<<
        "t", "h", "i", "s", " ", "u", "n", "d", "e", "r", "s", "c", "o",
        "r", "e", "s">>),
      \* \bthis illustrates\b
      LiteralPattern(<<
        "t", "h", "i", "s", " ", "i", "l", "l", "u", "s", "t", "r", "a",
        "t", "e", "s">>),
      \* \bcan be attributed to\b
      LiteralPattern(<<
        "c", "a", "n", " ", "b", "e", " ", "a", "t", "t", "r", "i", "b",
        "u", "t", "e", "d", " ", "t", "o">>),
      \* \bplays a crucial role\b
      LiteralPattern(<<
        "p", "l", "a", "y", "s", " ", "a", " ", "c", "r", "u", "c", "i",
        "a", "l", " ", "r", "o", "l", "e">>),
      \* \bplays an important role\b
      LiteralPattern(<<
        "p", "l", "a", "y", "s", " ", "a", "n", " ", "i", "m", "p", "o",
        "r", "t", "a", "n", "t", " ", "r", "o", "l", "e">>),
      \* \bplays a significant role\b
      LiteralPattern(<<
        "p", "l", "a", "y", "s", " ", "a", " ", "s", "i", "g", "n", "i",
        "f", "i", "c", "a", "n", "t", " ", "r", "o", "l", "e">>),
      \* \bin today\'s world\b
      LiteralPattern(<<
        "i", "n", " ", "t", "o", "d", "a", "y", "'", "s", " ", "w", "o",
        "r", "l", "d">>),
      \* \bin the modern era\b
      LiteralPattern(<<
        "i", "n", " ", "t", "h", "e", " ", "m", "o", "d", "e", "r", "n",
        " ", "e", "r", "a">>),
      \* \bhas gained significant\b
      LiteralPattern(<<
        "h", "a", "s", " ", "g", "a", "i", "n", "e", "d", " ", "s", "i",
        "g", "n", "i", "f", "i", "c", "a", "n", "t">>),
      \* \bhas become increasingly\b
      LiteralPattern(<<
        "h", "a", "s", " ", "b", "e", "c", "o", "m", "e", " ", "i", "n",
        "c", "r", "e", "a", "s", "i", "n", "g", "l", "y">>),
      \* \bprovides valuable insights\b
      LiteralPattern(<<
        "p", "r", "o", "v", "i", "d", "e", "s", " ", "v", "a", "l", "u",
        "a", "b", "l", "e", " ", "i", "n", "s", "i", "g", "h", "t", "s">>),
      \* \boffers a comprehensive\b
      LiteralPattern(<<
        "o", "f", "f", "e", "r", "s", " ", "a", " ", "c", "o", "m", "p",
        "r", "e", "h", "e", "n", "s", "i", "v", "e">>),
      \* \bit is imperative\b
      LiteralPattern(<<
        "i", "t", " ", "i", "s", " ", "i", "m", "p", "e", "r", "a", "t",
        "i", "v", "e">>),
      \* \bit is paramount\b
      LiteralPattern(<<
        "i", "t", " ", "i", "s", " ", "p", "a", "r", "a", "m", "o", "u",
        "n", "t">>),
      \* \bfacilitates\b
      LiteralPattern(<<
        "f", "a", "c", "i", "l", "i", "t", "a", "t", "e", "s">>),
      \* \bleverage\b
      LiteralPattern(<<
        "l", "e", "v", "e", "r", "a", "g", "e">>),
      \* \butilize\b
      LiteralPattern(<<
        "u", "t", "i", "l", "i", "z", "e">>),
      \* \bdelve into\b
      LiteralPattern(<<
        "d", "e", "l", "v", "e", " ", "i", "n", "t", "o">>),
      \* \bembark on\b
      LiteralPattern(<<
        "e", "m", "b", "a", "r", "k", " ", "o", "n">>),
      \* \bnavigate\b
      LiteralPattern(<<
        "n", "a", "v", "i", "g", "a", "t", "e">>)
    >>

\* the compiled AI_HEDGING_PATTERNS
AI_HEDGING_PATTERNS ==
    <<
      \* \bit can be argued\b
      LiteralPattern(<<
        "i", "t", " ", "c", "a", "n", " ", "b", "e", " ", "a", "r", "g",
        "u", "e", "d">>),
      \* \bone could argue\b
      LiteralPattern(<<
        "o", "n", "e", " ", "c", "o", "u", "l", "d", " ", "a", "r", "g",
        "u", "e">>),
      \* \bit seems that\b
      LiteralPattern(<<
        "i", "t", " ", "s", "e", "e", "m", "s", " ", "t", "h", "a", "t">>),
      \* \bit appears that\b
      LiteralPattern(<<
        "i", "t", " ", "a", "p", "p", "e", "a", "r", "s", " ", "t", "h",
        "a", "t">>),
      \* \bit may be\b
      LiteralPattern(<<
        "i", "t", " ", "m", "a", "y", " ", "b", "e">>),
      \* \bit might be\b
      LiteralPattern(<<
        "i", "t", " ", "m", "i", "g", "h", "t", " ", "b", "e">>),
      \* \bthere is evidence to suggest\b
      LiteralPattern(<<
        "t", "h", "e", "r", "e", " ", "i", "s", " ", "e", "v", "i", "d",
        "e", "n", "c", "e", " ", "t", "o", " ", "s", "u", "g", "g", "e",
        "s", "t">>),
      \* \bresearch suggests\b
      LiteralPattern(<<
        "r", "e", "s", "e", "a", "r", "c", "h", " ", "s", "u", "g", "g",
        "e", "s", "t", "s">>),
      \* \bstudies indicate\b
      LiteralPattern(<<
        "s", "t", "u", "d", "i", "e", "s", " ", "i", "n", "d", "i", "c",
        "a", "t", "e">>),
      \* \bexperts believe\b
      LiteralPattern(<<
        "e", "x", "p", "e", "r", "t", "s", " ", "b", "e", "l", "i", "e",
        "v", "e">>)
    >>

\* (?:is|are|was|were|been|being)
PassiveAuxiliaries ==
    <<<<"i", "s">>,
      <<"a", "r", "e">>,
      <<"w", "a", "s">>,
      <<"w", "e", "r", "e">>,
      <<"b", "e", "e", "n">>,
      <<"b", "e", "i", "n", "g">>>>

\* the compiled PASSIVE_PATTERNS
PASSIVE_PATTERNS ==
    <<
      \* \b(?:is|are|was|were|been|being)\s+\w+ed\b
      ParticiplePattern(<<"e", "d">>),
      \* \b(?:is|are|was|were|been|being)\s+\w+en\b
      ParticiplePattern(<<"e", "n">>),
      \* \bhas been\b
      LiteralPattern(<<"h", "a", "s", " ", "b", "e", "e", "n">>),
      \* \bhave been\b
      LiteralPattern(<<"h", "a", "v", "e", " ", "b", "e", "e", "n">>),
      \* \bwill be\b
      LiteralPattern(<<"w", "i", "l", "l", " ", "b", "e">>)
    >>

\* formal_words of analyze_sentence
formal_words ==
    {<<"u", "t", "i", "l", "i", "z", "e">>,
     <<"f", "a", "c", "i", "l", "i", "t", "a", "t", "e">>,
     <<"i", "m", "p", "l", "e", "m", "e", "n", "t">>,
     <<"l", "e", "v", "e", "r", "a", "g", "e">>,
     <<"o", "p", "t", "i", "m", "i", "z", "e">>,
     <<"c", "o", "m", "p", "r", "e", "h", "e", "n", "s", "i", "v", "e">>,
     <<"s", "i", "g", "n", "i", "f", "i", "c", "a", "n", "t">>,
     <<"s", "u", "b", "s", "t", "a", "n", "t", "i", "a", "l">>,
     <<"f", "u", "n", "d", "a", "m", "e", "n", "t", "a", "l">>}

\* whether the characters from offset i on are chars, letter case ignored
HasAt(s, i, chars) ==
    /\ i + Len(chars) <= Len(s)
    /\ LowerText(Slice(s, i, i + Len(chars))) = chars

\* the end of the match of \b chars \b starting at offset i, or -1
LiteralMatchAt(text, i, chars) ==
    IF /\ WordBoundaryAt(text, i)
       /\ HasAt(text, i, chars)
       /\ WordBoundaryAt(text, i + Len(chars))
    THEN i + Len(chars)
    ELSE -1

\* The end of the match of \b auxiliary \s+ \w+ ending \b starting at offset
\* i, or -1.  \s+ takes the whole run of whitespace, since \w+ starts at a
\* word character; \w+ gives back characters until the ending is followed
\* by \b, which inside a run of word characters is only at its end.
ParticipleMatchAt(text, i, ending) ==
    IF WordBoundaryAt(text, i)
    THEN LET ends ==
                 {k \in 0..Len(text) :
                     \E a \in 1..Len(PassiveAuxiliaries) :
                        \E after \in {i + Len(PassiveAuxiliaries[a])} :
                           /\ HasAt(text, i, PassiveAuxiliaries[a])
                           /\ \E j \in {RunEnd(text, after, Whitespace)} :
                                 /\ j > after
                                 /\ k = RunEnd(text, j, WordChars)
                                 /\ k >= j + 1 + Len(ending)
                                 /\ HasAt(text, k - Len(ending), ending)}
         IN  IF ends = {} THEN -1 ELSE Max(ends)
    ELSE -1

PatternMatchAt(text, i, pattern) ==
    IF pattern.kind = "literal"
    THEN LiteralMatchAt(text, i, pattern.chars)
    ELSE ParticipleMatchAt(text, i, pattern.ending)

\* len(pattern.findall(text)): the matches found scanning from offset pos,
\* each search resuming where the last match ended
RECURSIVE FindAll(_, _, _)
FindAll(text, pattern, pos) ==
    LET starts == {i \in pos..(Len(text) - 1) :
                      PatternMatchAt(text, i, pattern) >= 0}
    IN  IF starts = {} THEN 0
        ELSE 1 + FindAll(text, pattern,
                         PatternMatchAt(text, Min(starts), pattern))

\* sum over the patterns of len(pattern.findall(text))
count_pattern_matches(text, patterns) ==
    Sum([k \in 1..Len(patterns) |-> FindAll(text, patterns[k], 0)])

\* sum(1 for w in words if w in formal_words)
FormalCount(words) ==
    Cardinality({i \in 1..Len(words) : words[i] \in formal_words})

\* __init__: the attributes of a new engine, the four compiled tables
AIDetectionEngine ==
    [compiled_ai_transitions |-> AI_TRANSITION_PATTERNS,
     compiled_ai_phrases     |-> AI_PHRASE_PATTERNS,
     compiled_ai_hedging     |-> AI_HEDGING_PATTERNS,
     compiled_passive        |-> PASSIVE_PATTERNS]

\* detection_engine = AIDetectionEngine(), the engine the endpoints share
detection_engine == AIDetectionEngine

\* what analyze_sentence of the engine self reads off the text of a sentence
ReadSentence(self, sentence) ==
    Features(Len(tokenize(sentence)),
             count_pattern_matches(sentence, self.compiled_ai_transitions),
             count_pattern_matches(sentence, self.compiled_ai_phrases),
             count_pattern_matches(sentence, self.compiled_ai_hedging),
             count_pattern_matches(sentence, self.compiled_passive),
             FormalCount(tokenize(sentence)))

\* what analyze_document of the engine self reads off a text: its sentences
\* and the number of distinct words of tokenize(text)
ReadDocument(self, text) ==
    Only({[sentences    |-> [i \in 1..Len(spans) |->
                                ReadSentence(self, spans[i].text)],
           unique_words |-> Cardinality(Range(tokenize(text)))] :
             spans \in {split_into_sentences(text)}})

\* SentenceAnalysis(text=sentence, start_index=start_idx, end_index=end_idx,
\* ...): the analysis of a sentence with its span
WithSpan(analysis, span) ==
    [text           |-> span.text,
     start_index    |-> span.start,
     end_index      |-> span.end,
     ai_probability |-> analysis.ai_probability,
     classification |-> analysis.classification,
     indicators     |-> analysis.indicators,
     ai_score       |-> analysis.ai_score,
     increments     |-> analysis.increments]

\* the mutant of WithSpans: only the sentences not classified human are kept
WithSpansFlagged(result, spans) ==
    IF result.raised THEN result
    ELSE [result EXCEPT !.highlighted_sections =
             SelectSeq([i \in 1..Len(spans) |->
                           WithSpan(result.highlighted_sections[i], spans[i])],
                       LAMBDA section : section.classification # "human")]

\* the sections of a result, each with the span of its sentence
WithSpans(result, spans) ==
    IF result.raised THEN result
    ELSE [result EXCEPT !.highlighted_sections =
             [i \in 1..Len(spans) |->
                 WithSpan(result.highlighted_sections[i], spans[i])]]

\* the DetectionResults computed from what was read off a text
ResultsOf(doc, spans) ==
    {WithSpans(result, spans) : result \in analyze_document(doc)}

\* The DetectionResults detection_engine.analyze_document(text) can return.
analyze_document_text(text) ==
    UNION {ResultsOf(ReadDocument(detection_engine, text), spans) :
           spans \in {split_into_sentences(text)}}

\* The texts analyze_document is called with beside the short ones.
\* "Furthermore, it is important to note that this utilizes a comprehensive
\* approach. Moreover, the findings demonstrate significant implications."
FormalText ==
    <<
      "F", "u", "r", "t", "h", "e", "r", "m", "o", "r", "e", ",", " ", "i",
      "t", " ", "i", "s", " ", "i", "m", "p", "o", "r", "t", "a", "n", "t",
      " ", "t", "o", " ", "n", "o", "t", "e", " ", "t", "h", "a", "t", " ",
      "t", "h", "i", "s", " ", "u", "t", "i", "l", "i", "z", "e", "s", " ",
      "a", " ", "c", "o", "m", "p", "r", "e", "h", "e", "n", "s", "i", "v",
      "e", " ", "a", "p", "p", "r", "o", "a", "c", "h", ".", " ", "M", "o",
      "r", "e", "o", "v", "e", "r", ",", " ", "t", "h", "e", " ", "f", "i",
      "n", "d", "i", "n", "g", "s", " ", "d", "e", "m", "o", "n", "s", "t",
      "r", "a", "t", "e", " ", "s", "i", "g", "n", "i", "f", "i", "c", "a",
      "n", "t", " ", "i", "m", "p", "l", "i", "c", "a", "t", "i", "o", "n",
      "s", "."
    >>

\* "The cat sat on the mat. It was a sunny day and the cat enjoyed the
\* warmth."
CatText ==
    <<
      "T", "h", "e", " ", "c", "a", "t", " ", "s", "a", "t", " ", "o", "n",
      " ", "t", "h", "e", " ", "m", "a", "t", ".", " ", "I", "t", " ", "w",
      "a", "s", " ", "a", " ", "s", "u", "n", "n", "y", " ", "d", "a", "y",
      " ", "a", "n", "d", " ", "t", "h", "e", " ", "c", "a", "t", " ", "e",
      "n", "j", "o", "y", "e", "d", " ", "t", "h", "e", " ", "w", "a", "r",
      "m", "t", "h", "."
    >>

\* "However, it seems that it may be fine."
HedgedText ==
    <<
      "H", "o", "w", "e", "v", "e", "r", ",", " ", "i", "t", " ", "s", "e",
      "e", "m", "s", " ", "t", "h", "a", "t", " ", "i", "t", " ", "m", "a",
      "y", " ", "b", "e", " ", "f", "i", "n", "e", "."
    >>

\* "Hence however. Hence however we navigate."
NavigateText ==
    <<
      "H", "e", "n", "c", "e", " ", "h", "o", "w", "e", "v", "e", "r", ".",
      " ", "H", "e", "n", "c", "e", " ", "h", "o", "w", "e", "v", "e", "r",
      " ", "w", "e", " ", "n", "a", "v", "i", "g", "a", "t", "e", "."
    >>

\* "It go red and. Cat a cat day cat."
PlainText ==
    <<
      "I", "t", " ", "g", "o", " ", "r", "e", "d", " ", "a", "n", "d", ".",
      " ", "C", "a", "t", " ", "a", " ", "c", "a", "t", " ", "d", "a", "y",
      " ", "c", "a", "t", "."
    >>

\* "Mat is taken. We utilize tools."
PassiveText ==
    <<
      "M", "a", "t", " ", "i", "s", " ", "t", "a", "k", "e", "n", ".", " ",
      "W", "e", " ", "u", "t", "i", "l", "i", "z", "e", " ", "t", "o", "o",
      "l", "s", "."
    >>

\* "It was added and is taken. Mat is taken by a cat on a red day.": two
\* passives among six words, then one passive among ten
TenthText ==
    <<
      "I", "t", " ", "w", "a", "s", " ", "a", "d", "d", "e", "d", " ", "a",
      "n", "d", " ", "i", "s", " ", "t", "a", "k", "e", "n", ".", " ", "M",
      "a", "t", " ", "i", "s", " ", "t", "a", "k", "e", "n", " ", "b", "y",
      " ", "a", " ", "c", "a", "t", " ", "o", "n", " ", "a", " ", "r", "e",
      "d", " ", "d", "a", "y", "."
    >>

ExampleTexts ==
    {FormalText, CatText, HedgedText, NavigateText, PlainText, PassiveText,
     TenthText}

\* texts of whitespace other than blanks
BlankTexts == {<<"\t", "\n">>, <<" ", "\r", "\f", "\n">>}

\* the short texts analyze_document is called with
ShortTexts == UNION {[1..n -> Alphabet] : n \in 0..MaxTextLen}

(***************************************************************************)
(* The endpoints.                                                          *)
(*                                                                         *)
(* A response is a record: `status` is the HTTP status (200, or the        *)
(* status_code of the HTTPException raised), `analyzed` the texts handed   *)
(* to detection_engine.analyze_document during the request, in order, and  *)
(* `saved` the rows save_detection tried to insert.  None is "None".       *)
(***************************************************************************)
\* None where a DetectionResult is expected
NoResult == [none |-> TRUE]

\* v is None
IsNone(v) == "none" \in DOMAIN v

\* raise HTTPException(status_code=status, detail=detail) before any call
Rejected(status, detail) ==
    [status |-> status, detail |-> detail, analyzed |-> <<>>, saved |-> <<>>]

\* the number of characters of the text save_detection stores
StoredLimit == 5000

\* detection_data of save_detection
DetectionData(text, result) ==
    [user_id           |-> "None",
     text              |-> Slice(text, 0,
                                 IF Len(text) < StoredLimit THEN Len(text)
                                 ELSE StoredLimit),
     ai_probability    |-> result.ai_probability,
     human_probability |-> result.human_probability,
     verdict           |-> result.verdict,
     confidence        |-> result.confidence]

\* What the insert of save_detection can do: return the new row with a
\* string id, return a row whose id is no string (an integer key), return
\* no row, or raise.
InsertOutcomes == {"row", "row, id not a str", "no rows", "raises"}

\* the mutant of save_detection: no try around the insert, its exception
\* leaves save_detection
save_detection_unguarded(text, result, insert) ==
    IF insert = "row" THEN "id"
    ELSE IF insert = "row, id not a str" THEN "not a str"
    ELSE IF insert = "raises" THEN "raised"
    ELSE "None"

\* save_detection: response.data[0].get('id') of the inserted row; None
\* when the insert returns no row and when it raises ("raised" would be an
\* exception leaving save_detection)
save_detection(text, result, insert) ==
    IF insert = "row" THEN "id"
    ELSE IF insert = "row, id not a str" THEN "not a str"
    ELSE "None"

\* raise HTTPException(status_code=status_code, detail=detail)
HTTPException(status_code, detail) ==
    [exception |-> "HTTPException", status_code |-> status_code,
     detail |-> detail]

\* any other exception, str(e) its message
OtherException(message) == [exception |-> "Exception", message |-> message]

\* the mutant of Except: the clause "except HTTPException: raise" left out
ExceptAll(e, failure, analyzed, saved) ==
    [status |-> 500, detail |-> failure,
     cause |-> IF e.exception = "HTTPException" THEN e.detail ELSE e.message,
     analyzed |-> analyzed, saved |-> saved]

\* The except clauses of detect_ai_text and detect_ai_file: an
\* HTTPException is raised again as it is, any other Exception e becomes
\* HTTPException(500, f"{failure}: {str(e)}"), here detail and cause.
Except(e, failure, analyzed, saved) ==
    IF e.exception = "HTTPException"
    THEN [status |-> e.status_code, detail |-> e.detail,
          analyzed |-> analyzed, saved |-> saved]
    ELSE [status |-> 500, detail |-> failure, cause |-> e.message,
          analyzed |-> analyzed, saved |-> saved]

\* DetectTextResponse(success=True, result=result, detection_id=...): the
\* field is Optional[str]; an id that is no string is turned into one or
\* refused with a ValidationError, as the installed pydantic decides
ResponseBuilt(detection_id) ==
    IF detection_id = "not a str" THEN {TRUE, FALSE} ELSE {TRUE}

\* The rest of detect_ai_text and detect_ai_file once the text is accepted:
\* the responses, an exception going through the except clauses.
Detect(text, result, insert, failure) ==
    IF result.raised
    THEN {Except(OtherException("analyze_document"), failure,
                 <<text>>, <<>>)}
    ELSE UNION {
           IF detection_id = "raised"
           THEN {Except(OtherException("save_detection"), failure,
                        <<text>>, <<DetectionData(text, result)>>)}
           ELSE {IF built
                 THEN [status       |-> 200,
                       success      |-> TRUE,
                       result       |-> result,
                       detection_id |-> IF detection_id = "None"
                                        THEN "None" ELSE "id",
                       analyzed     |-> <<text>>,
                       saved        |-> <<DetectionData(text, result)>>]
                 ELSE Except(OtherException("ValidationError"), failure,
                             <<text>>, <<DetectionData(text, result)>>) :
                    built \in ResponseBuilt(detection_id)} :
           detection_id \in {save_detection(text, result, insert)}}

\* POST /detect-text: the responses to a request with the given text
detect_ai_text(text, insert) ==
    IF Len(Strip(text)) < 50
    THEN {Except(HTTPException(400, "Text must be at least 50 characters for meaningful analysis"),
                 "Analysis failed", <<>>, <<>>)}
    ELSE UNION {Detect(text, result, insert, "Analysis failed") :
                   result \in analyze_document_text(text)}

\* str.endswith
EndsWith(s, suffix) ==
    /\ Len(suffix) <= Len(s)
    /\ Slice(s, Len(s) - Len(suffix), Len(s)) = suffix

\* file.filename.endswith(('.txt', '.md'))
SupportedFile(filename) ==
    \/ EndsWith(filename, <<".", "t", "x", "t">>)
    \/ EndsWith(filename, <<".", "m", "d">>)

\* POST /detect-file: the responses to an upload whose content decodes to
\* the given text
detect_ai_file(filename, text, insert) ==
    IF ~SupportedFile(filename)
    THEN {Except(HTTPException(400, "Only .txt and .md files are supported"),
                 "File analysis failed", <<>>, <<>>)}
    ELSE IF Len(Strip(text)) < 50
    THEN {Except(HTTPException(400, "File content must be at least 50 characters"),
                 "File analysis failed", <<>>, <<>>)}
    ELSE UNION {Detect(text, result, insert, "File analysis failed") :
                   result \in analyze_document_text(text)}

\* One entry of the results of analyze_batch, for the text at 0-based index
\* i; result is the DetectionResult, [raised |-> TRUE] when analyze_document
\* raises.
BatchEntries(text, i) ==
    IF Len(Strip(text)) < 20
    THEN {[index |-> i, error |-> "Text too short for analysis",
           result |-> NoResult, analyzed |-> <<>>]}
    ELSE {[index |-> i, error |-> "None",
           result |-> result, analyzed |-> <<text>>] :
             result \in analyze_document_text(text)}

\* The for loop of analyze_batch from the text at index i on: the entries
\* appended, the texts analysed, and whether analyze_document raised.
RECURSIVE BatchLoop(_, _)
BatchLoop(texts, i) ==
    IF i >= Len(texts)
    THEN {[results |-> <<>>, analyzed |-> <<>>, raised |-> FALSE]}
    ELSE UNION {
           IF ~IsNone(entry.result) /\ entry.result.raised
           THEN {[results |-> <<>>, analyzed |-> entry.analyzed,
                  raised |-> TRUE]}
           ELSE {[results  |-> <<[index  |-> entry.index,
                                  error  |-> entry.error,
                                  result |-> entry.result]>>
                                 \o rest.results,
                  analyzed |-> entry.analyzed \o rest.analyzed,
                  raised   |-> rest.raised] :
                    rest \in BatchLoop(texts, i + 1)} :
           entry \in BatchEntries(At(texts, i), i)}

\* the mutant of TotalAnalyzed: every entry counted
TotalAnalyzedAll(results) == Len(results)

\* len([r for r in results if r['result'] is not None])
TotalAnalyzed(results) ==
    Cardinality({k \in 1..Len(results) : ~IsNone(results[k].result)})

\* POST /analyze-batch: the responses to a list of texts
analyze_batch(texts) ==
    IF Len(texts) > 20
    THEN {Rejected(400, "Maximum 20 texts per batch")}
    ELSE {IF run.raised
          THEN [status |-> 500, detail |-> "Batch analysis failed",
                analyzed |-> run.analyzed, saved |-> <<>>]
          ELSE [status         |-> 200,
                success        |-> TRUE,
                results        |-> run.results,
                total_analyzed |-> TotalAnalyzed(run.results),
                analyzed       |-> run.analyzed,
                saved          |-> <<>>] :
             run \in BatchLoop(texts, 0)}

\* the text followed by blanks up to 50 characters
Padded(text) == text \o [i \in 1..(50 - Len(text)) |-> " "]

\* nineteen and twenty characters
NineteenText == [i \in 1..19 |-> "a"]

TwentyText == [i \in 1..20 |-> "a"]

\* The texts the endpoints are called with: the example texts, their
\* padded forms, and texts at the two length thresholds.
EndpointTexts ==
    ExampleTexts \cup {Padded(text) : text \in ExampleTexts}
        \cup {<<>>, NineteenText, TwentyText}

\* DetectTextRequest.text: Field(..., min_length=50)
RequestTexts == {text \in EndpointTexts : Len(text) >= 50}

Filenames ==
    {<<"a", ".", "t", "x", "t">>,
     <<"a", ".", "m", "d">>,
     <<"a", ".", "p", "d", "f">>,
     <<"t", "x", "t">>}

\* the texts of the modelled batches
BatchTexts == {<<>>, NineteenText, TwentyText, PassiveText, CatText}

\* lists of at most MaxBatch texts, twenty short texts, twenty-one texts
Batches ==
    UNION {[1..n -> BatchTexts] : n \in 0..MaxBatch}
        \cup {[i \in 1..20 |-> NineteenText], [i \in 1..21 |-> CatText]}

(***************************************************************************)
(* Deep review: perform_ai_content_analysis of deep_review.py.             *)
(***************************************************************************)
\* section.text[:200] + "..." if len(section.text) > 200 else section.text
TextPreview(text) ==
    IF Len(text) > 200 THEN Slice(text, 0, 200) \o <<".", ".", ".">>
    ELSE text

\* the entry appended to flagged_sections for a section
FlaggedEntry(section) ==
    [text_preview   |-> TextPreview(section.text),
     ai_probability |-> section.ai_probability,
     classification |-> section.classification,
     indicators     |-> section.indicators]

\* the mutant of FlaggedSections: a section of 60 is flagged too
RECURSIVE FlaggedSectionsFromSixty(_)
FlaggedSectionsFromSixty(sections) ==
    IF sections = <<>> THEN <<>>
    ELSE (IF Head(sections).ai_probability >= 6000
          THEN <<FlaggedEntry(Head(sections))>> ELSE <<>>)
            \o FlaggedSectionsFromSixty(Tail(sections))

\* the loop over result.highlighted_sections: if section.ai_probability > 60
RECURSIVE FlaggedSections(_)
FlaggedSections(sections) ==
    IF sections = <<>> THEN <<>>
    ELSE (IF Head(sections).ai_probability > 6000
          THEN <<FlaggedEntry(Head(sections))>> ELSE <<>>)
            \o FlaggedSections(Tail(sections))

\* the recommendations; count is the number in the message, 0 if none
Recommendations(result, flagged_sections) ==
    (IF result.ai_probability > 7000
     THEN <<[message |-> "Significant AI-generated content detected. Consider rewriting key sections in your own voice.",
             count |-> 0],
            [message |-> "Add more personal insights and original analysis to the flagged sections.",
             count |-> 0]>>
     ELSE IF result.ai_probability > 5000
     THEN <<[message |-> "Some sections show AI writing patterns. Review and personalize these areas.",
             count |-> 0]>>
     ELSE <<[message |-> "Content appears primarily human-written.",
             count |-> 0]>>)
    \o (IF Len(flagged_sections) > 0
        THEN <<[message |-> "Review the {count} flagged sections for potential AI-generated content.",
                count |-> Len(flagged_sections)]>>
        ELSE <<>>)

\* the AIContentAnalysis returned by the except clause
AnalysisFallback ==
    [ai_probability    |-> 0,
     human_probability |-> 10000,
     verdict           |-> "Unable to analyze",
     confidence        |-> 0,
     flagged_sections  |-> <<>>,
     recommendations   |-> <<[message |-> "AI detection analysis failed",
                              count |-> 0]>>]

\* the AIContentAnalysis built from the result of the detector
AnalysisOf(result) ==
    Only({[ai_probability    |-> result.ai_probability,
           human_probability |-> result.human_probability,
           verdict           |-> result.verdict,
           confidence        |-> result.confidence,
           flagged_sections  |-> flagged_sections,
           recommendations   |-> Recommendations(result, flagged_sections)] :
             flagged_sections \in
                {FlaggedSections(result.highlighted_sections)}})

\* What the call detection_engine.analyze_document(text) does inside
\* perform_ai_content_analysis: it returns, or an exception leaves it.
DetectorOutcomes == {"returns", "raises"}

\* perform_ai_content_analysis(text): the values it can return
perform_ai_content_analysis(text, detector) ==
    IF detector = "raises" THEN {AnalysisFallback}
    ELSE {IF result.raised THEN AnalysisFallback ELSE AnalysisOf(result) :
             result \in analyze_document_text(text)}

\* "We utilize and leverage what is taken. Hence we utilize and leverage
\* what is taken.": a sentence of 60.0 and a sentence of 70.0
SixtyText ==
    <<
      "W", "e", " ", "u", "t", "i", "l", "i", "z", "e", " ", "a", "n", "d",
      " ", "l", "e", "v", "e", "r", "a", "g", "e", " ", "w", "h", "a", "t",
      " ", "i", "s", " ", "t", "a", "k", "e", "n", ".", " ", "H", "e", "n",
      "c", "e", " ", "w", "e", " ", "u", "t", "i", "l", "i", "z", "e", " ",
      "a", "n", "d", " ", "l", "e", "v", "e", "r", "a", "g", "e", " ", "w",
      "h", "a", "t", " ", "i", "s", " ", "t", "a", "k", "e", "n", "."
    >>

\* the texts deep review is called with
ReviewTexts == {<<>>, PassiveText, HedgedText, SixtyText}

(***************************************************************************)
(* Calls of analyze_document in flight together on the shared engine.      *)
(***************************************************************************)
\* the tasks that call detection_engine.analyze_document
Tasks == {"first", "second"}

\* the texts they call it with
SharedTexts == {HedgedText, PassiveText}

\* the locals of a task that is in no call
IdleFrame ==
    [pc |-> "idle", text |-> <<>>, spans |-> <<>>, doc |-> <<>>,
     result |-> <<>>, overlapped |-> FALSE]

\* The frames after the task's frame becomes `frame`: the calls of the other
\* tasks that are in flight have seen another task run.
Step(task, frame) ==
    [u \in Tasks |->
        IF u = task THEN frame
        ELSE IF frames[u].pc \in {"called", "read"}
             THEN [frames[u] EXCEPT !.overlapped = TRUE]
             ELSE frames[u]]

\* the mutant of EngineAfterRead: a table is used up by the first call that
\* reads it
EngineAfterReadExhausted(self) ==
    [self EXCEPT !.compiled_ai_transitions = <<>>]

\* The attributes of the engine after a call has read them: no statement of
\* analyze_document or of the methods it calls assigns one.
EngineAfterRead(self) == self

Init ==
    /\ pc = "idle"
    /\ op = "none"
    /\ arg = <<>>
    /\ ret = <<>>
    /\ engine = detection_engine
    /\ frames = [task \in Tasks |-> IdleFrame]
    /\ history = [text \in SharedTexts |-> {}]

CallSplit ==
    /\ pc = "idle"
    /\ \E text \in Texts :
          /\ arg' = text
          /\ ret' = split_into_sentences(text)
    /\ op' = "split_into_sentences"
    /\ pc' = "returned"
    /\ UNCHANGED <<engine, frames, history>>

CallTokenize ==
    /\ pc = "idle"
    /\ \E text \in Texts :
          /\ arg' = text
          /\ ret' = tokenize(text)
    /\ op' = "tokenize"
    /\ pc' = "returned"
    /\ UNCHANGED <<engine, frames, history>>

CallTtr ==
    /\ pc = "idle"
    /\ \E words \in WordLists :
          /\ arg' = words
          /\ ret' = calculate_ttr(words)
    /\ op' = "calculate_ttr"
    /\ pc' = "returned"
    /\ UNCHANGED <<engine, frames, history>>

CallAnalyzeSentence ==
    /\ pc = "idle"
    /\ \E s \in SentenceInputs :
          /\ arg' = s
          /\ ret' = analyze_sentence(s)
    /\ op' = "analyze_sentence"
    /\ pc' = "returned"
    /\ UNCHANGED <<engine, frames, history>>

\* the sentence lists calculate_sentence_length_stats is called with
StatsInputs ==
    UNION {[1..n -> DocSentences] : n \in 0..MaxSent}
        \cup UNION {[1..n -> LongSentences] : n \in 1..MaxLong}

CallLengthStats ==
    /\ pc = "idle"
    /\ \E sentences \in StatsInputs :
          /\ arg' = sentences
          /\ ret' = calculate_sentence_length_stats(sentences)
    /\ op' = "calculate_sentence_length_stats"
    /\ pc' = "returned"
    /\ UNCHANGED <<engine, frames, history>>

CallAnalyzeDocument ==
    /\ pc = "idle"
    /\ \E doc \in DocInputs \cup LongDocInputs \cup SaturatedDocInputs :
          /\ arg' = doc
          /\ \E result \in analyze_document(doc) : ret' = result
    /\ op' = "analyze_document"
    /\ pc' = "returned"
    /\ UNCHANGED <<engine, frames, history>>

\* analyze_document on a text, the result with the spans of its sentences
CallAnalyzeText ==
    /\ pc = "idle"
    /\ \E text \in ShortTexts \cup BlankTexts \cup ExampleTexts :
          /\ arg' = text
          /\ \E result \in analyze_document_text(text) : ret' = result
    /\ op' = "analyze_document_text"
    /\ pc' = "returned"
    /\ UNCHANGED <<engine, frames, history>>

\* texts of StoredLimit - 1, StoredLimit and StoredLimit + 1 characters and
\* a short one
StoredTexts ==
    {[i \in 1..n |-> IF i % 2 = 0 THEN "a" ELSE "B"] :
        n \in {StoredLimit - 1, StoredLimit, StoredLimit + 1}}
        \cup {PassiveText}

\* the results save_detection is called with
StoredResults ==
    UNION {analyze_document(doc) : doc \in SaturatedDocInputs}

\* save_detection(user_id=None, text=text, result=result); `stored` is the
\* detection_data handed to the insert
CallSaveDetection ==
    /\ pc = "idle"
    /\ \E text \in StoredTexts, result \in StoredResults,
          insert \in InsertOutcomes :
          /\ arg' = [text |-> text, result |-> result, insert |-> insert]
          /\ \E detection_id \in {save_detection(text, result, insert)} :
                ret' = [raised       |-> detection_id = "raised",
                        detection_id |-> detection_id,
                        stored       |-> DetectionData(text, result)]
    /\ op' = "save_detection"
    /\ pc' = "returned"
    /\ UNCHANGED <<engine, frames, history>>

CallContentAnalysis ==
    /\ pc = "idle"
    /\ \E text \in ReviewTexts, detector \in DetectorOutcomes :
          /\ arg' = [text |-> text, detector |-> detector]
          /\ \E analysis \in perform_ai_content_analysis(text, detector) :
                ret' = analysis
    /\ op' = "perform_ai_content_analysis"
    /\ pc' = "returned"
    /\ UNCHANGED <<engine, frames, history>>

CallDetectText ==
    /\ pc = "idle"
    /\ \E text \in RequestTexts, insert \in InsertOutcomes :
          /\ arg' = [text |-> text, insert |-> insert]
          /\ \E response \in detect_ai_text(text, insert) : ret' = response
    /\ op' = "detect_ai_text"
    /\ pc' = "returned"
    /\ UNCHANGED <<engine, frames, history>>

CallDetectFile ==
    /\ pc = "idle"
    /\ \E filename \in Filenames, text \in EndpointTexts,
          insert \in InsertOutcomes :
          /\ arg' = [filename |-> filename, text |-> text,
                     insert |-> insert]
          /\ \E response \in detect_ai_file(filename, text, insert) :
                ret' = response
    /\ op' = "detect_ai_file"
    /\ pc' = "returned"
    /\ UNCHANGED <<engine, frames, history>>

CallAnalyzeBatch ==
    /\ pc = "idle"
    /\ \E texts \in Batches :
          /\ arg' = texts
          /\ \E response \in analyze_batch(texts) : ret' = response
    /\ op' = "analyze_batch"
    /\ pc' = "returned"
    /\ UNCHANGED <<engine, frames, history>>

\* the caller takes the value; the engine keeps nothing of the call
Return ==
    /\ pc = "returned"
    /\ pc' = "idle"
    /\ op' = "none"
    /\ arg' = <<>>
    /\ ret' = <<>>
    /\ UNCHANGED <<engine, frames, history>>

Next ==
    \/ CallSplit
    \/ CallTokenize
    \/ CallTtr
    \/ CallAnalyzeSentence
    \/ CallLengthStats
    \/ CallAnalyzeDocument
    \/ CallAnalyzeText
    \/ CallSaveDetection
    \/ CallDetectText
    \/ CallDetectFile
    \/ CallAnalyzeBatch
    \/ CallContentAnalysis
    \/ Return

Spec == Init /\ [][Next]_vars

Returned(name) == pc = "returned" /\ op = name

\* a task calls detection_engine.analyze_document(text)
Begin(task) ==
    /\ frames[task].pc = "idle"
    /\ \E text \in SharedTexts :
          frames' = Step(task, [IdleFrame EXCEPT !.pc = "called",
                                                  !.text = text])
    /\ UNCHANGED <<engine, history, pc, op, arg, ret>>

\* the call splits the text and counts the matches of the engine's tables
ReadText(task) ==
    /\ frames[task].pc = "called"
    /\ frames' =
          Step(task,
               [frames[task] EXCEPT
                   !.pc = "read",
                   !.spans = split_into_sentences(frames[task].text),
                   !.doc = ReadDocument(engine, frames[task].text)])
    /\ engine' = EngineAfterRead(engine)
    /\ UNCHANGED <<history, pc, op, arg, ret>>

\* the call computes its DetectionResult from its locals and returns it
Compute(task) ==
    /\ frames[task].pc = "read"
    /\ \E result \in ResultsOf(frames[task].doc, frames[task].spans) :
          frames' = Step(task, [frames[task] EXCEPT !.pc = "returned",
                                                     !.result = result])
    /\ UNCHANGED <<engine, history, pc, op, arg, ret>>

\* the caller takes the result
TakeResult(task) ==
    /\ frames[task].pc = "returned"
    /\ history' = [history EXCEPT
                      ![frames[task].text] = @ \cup {frames[task].result}]
    /\ frames' = Step(task, IdleFrame)
    /\ UNCHANGED <<engine, pc, op, arg, ret>>

NextShared ==
    \E task \in Tasks :
       \/ Begin(task)
       \/ ReadText(task)
       \/ Compute(task)
       \/ TakeResult(task)

SpecShared == Init /\ [][NextShared]_vars

\* what detection_engine.analyze_document returns for a text when the call
\* runs alone
ResultAlone == [text \in SharedTexts |-> analyze_document_text(text)]

(***************************************************************************)
(* Claims about split_into_sentences.                                      *)
(***************************************************************************)
\* C3: for an input whose trimmed form is non-empty the splitter returns at
\* least one span, and every span's text is non-empty and is
\* s[start:end] stripped.
C3_SentenceCoverage ==
    (Returned("split_into_sentences") /\ Strip(arg) # <<>>) =>
        /\ Len(ret) >= 1
        /\ \A i \in 1..Len(ret) :
              /\ ret[i].text # <<>>
              /\ ret[i].start >= 0
              /\ ret[i].end <= Len(arg)
              /\ ret[i].start <= ret[i].end
              /\ ret[i].text = Strip(Slice(arg, ret[i].start, ret[i].end))

\* a text cut at a boundary whose candidates carry whitespace to strip
C3_Witness ==
    /\ Returned("split_into_sentences")
    /\ Len(ret) = 2
    /\ ret[2].text # Slice(arg, ret[2].start, ret[2].end)

OnlyWhitespace(s) == \A i \in 1..Len(s) : s[i] \in Whitespace

\* C4: the spans are in the order of the input and do not overlap:
\* 0 <= start < end <= len(s), an earlier span ends at or before the start
\* of the next, and only whitespace lies between them.
C4_OrderedDisjointSpans ==
    Returned("split_into_sentences") =>
        /\ \A i \in 1..Len(ret) :
              0 <= ret[i].start /\ ret[i].start < ret[i].end
                 /\ ret[i].end <= Len(arg)
        /\ \A i \in 1..(Len(ret) - 1) :
              /\ ret[i].end <= ret[i + 1].start
              /\ OnlyWhitespace(Slice(arg, ret[i].end, ret[i + 1].start))

\* two spans with a gap of more than one whitespace character between them
C4_Witness ==
    /\ Returned("split_into_sentences")
    /\ Len(ret) = 2
    /\ ret[2].start - ret[1].end >= 2

\* a '.', '!' or '?' followed by whitespace and then an uppercase letter
HasBoundary(text) ==
    \E i \in 0..(Len(text) - 1), j \in 0..(Len(text) - 1) :
        /\ At(text, i) \in Terminators
        /\ j >= i + 2
        /\ \A k \in (i + 1)..(j - 1) : At(text, k) \in Whitespace
        /\ At(text, j) \in Upper

\* C5: the empty and the whitespace-only text give no span; a text without
\* boundary that is non-empty after trimming gives the one span
\* (trimmed text, 0, len(text)).
C5_EmptyAndSingleSentence ==
    Returned("split_into_sentences") =>
        /\ Strip(arg) = <<>> => ret = <<>>
        /\ (Strip(arg) # <<>> /\ ~HasBoundary(arg)) =>
              ret = <<[text |-> Strip(arg), start |-> 0, end |-> Len(arg)]>>

\* a text without boundary that holds a terminator and whitespace to trim
C5_Witness ==
    /\ Returned("split_into_sentences")
    /\ ~HasBoundary(arg)
    /\ Strip(arg) # <<>>
    /\ Strip(arg) # arg
    /\ \E i \in 1..Len(arg) : arg[i] \in Terminators
    /\ Len(ret) = 1

\* the whitespace-only text
C5_WitnessBlank ==
    /\ Returned("split_into_sentences")
    /\ arg # <<>>
    /\ Strip(arg) = <<>>
    /\ ret = <<>>

(***************************************************************************)
(* Claims about tokenize.                                                  *)
(***************************************************************************)
\* every maximal run of letters of s from offset pos on, in order
RECURSIVE LetterRuns(_, _)
LetterRuns(s, pos) ==
    IF pos >= Len(s) THEN <<>>
    ELSE IF At(s, pos) \in Letters
         THEN LET j == RunEnd(s, pos, Letters)
              IN  <<Slice(s, pos, j)>> \o LetterRuns(s, j)
         ELSE LetterRuns(s, pos + 1)

\* the maximal runs of letters with no word character (a digit or an
\* underscore) next to them
RECURSIVE DelimitedLetterRuns(_, _)
DelimitedLetterRuns(s, pos) ==
    IF pos >= Len(s) THEN <<>>
    ELSE IF At(s, pos) \in Letters
         THEN LET j == RunEnd(s, pos, Letters)
                  free == /\ (pos = 0 \/ At(s, pos - 1) \notin WordChars)
                          /\ (j = Len(s) \/ At(s, j) \notin WordChars)
              IN  (IF free THEN <<Slice(s, pos, j)>> ELSE <<>>)
                     \o DelimitedLetterRuns(s, j)
         ELSE DelimitedLetterRuns(s, pos + 1)

\* C6 as claimed: tokenize returns the lowercased form of every maximal run
\* of ASCII letters, in order, also of a run next to a digit.
C6_EveryLetterRun ==
    Returned("tokenize") => ret = LetterRuns(LowerText(arg), 0)

\* C6 amended: tokenize returns, in order and without deduplication, the
\* maximal runs of ASCII letters of the lowercased text that have no word
\* character next to them; a run next to a digit yields no word.
C6_DelimitedLetterRuns ==
    Returned("tokenize") =>
        /\ ret = DelimitedLetterRuns(LowerText(arg), 0)
        /\ arg = <<>> => ret = <<>>

\* a text with a run next to a digit, dropped, and a run that is returned
C6_Witness ==
    /\ Returned("tokenize")
    /\ ret # <<>>
    /\ ret # LetterRuns(LowerText(arg), 0)

(***************************************************************************)
(* Claims about calculate_ttr.                                             *)
(***************************************************************************)
AllDistinct(w) == \A i, j \in 1..Len(w) : i # j => w[i] # w[j]

TtrValueAndBounds ==
    /\ 0 <= ret.num /\ ret.num <= ret.den /\ ret.den > 0
    /\ arg # <<>> =>
          ret.num * Len(arg) = Cardinality(Range(arg)) * ret.den
    /\ arg = <<>> => ret.num = 0

\* C7 as claimed: TTR is in [0, 1], is |unique| / |words| for a non-empty
\* list and 0 for the empty one, and is 1 exactly when all words are distinct
\* (the empty list included).
C7_TtrOneIffDistinct ==
    Returned("calculate_ttr") =>
        /\ TtrValueAndBounds
        /\ (ret.num = ret.den) <=> AllDistinct(arg)

\* C7 amended: as claimed, but TTR is 1 exactly when the list is non-empty
\* and all its words are distinct.
C7_TtrOneIffNonEmptyDistinct ==
    Returned("calculate_ttr") =>
        /\ TtrValueAndBounds
        /\ (ret.num = ret.den) <=> (arg # <<>> /\ AllDistinct(arg))

\* a list with a repeated word, whose TTR is below 1
C7_Witness ==
    /\ Returned("calculate_ttr")
    /\ Len(arg) = 3
    /\ ~AllDistinct(arg)
    /\ ret.num * 3 = ret.den * 2

(***************************************************************************)
(* Claims about analyze_sentence.                                          *)
(***************************************************************************)
\* a <= b
FLessEq(a, b) == ~FLess(b, a)

MinOf(a, b) == IF a <= b THEN a ELSE b

\* C8: no signal adds more than its cap: transition words add
\* min(count * 0.10, 0.30), AI phrases min(count * 0.15, 0.40), hedging and
\* formal words min(count * 0.10, 0.20), passive voice at most 0.10, the
\* length at most 0.05; three or more transition words add exactly 0.30.
C8_ContributionsCapped ==
    Returned("analyze_sentence") =>
        LET inc == ret.increments
        IN  /\ inc.transition.k = MinOf(2 * arg.transition_count, 6)
            /\ FLessEq(inc.transition, Literal(6))
            /\ inc.phrase.k = MinOf(3 * arg.phrase_count, 8)
            /\ FLessEq(inc.phrase, Literal(8))
            /\ inc.hedging.k = MinOf(2 * arg.hedging_count, 4)
            /\ FLessEq(inc.hedging, Literal(4))
            /\ inc.formal.k = MinOf(2 * arg.formal_count, 4)
            /\ FLessEq(inc.formal, Literal(4))
            /\ FLessEq(inc.passive, Literal(2))
            /\ FLessEq(inc.length, Literal(1))
            /\ arg.transition_count >= 3 => inc.transition = Literal(6)

\* a sentence in which three tables match beyond their caps
C8_Witness ==
    /\ Returned("analyze_sentence")
    /\ arg.transition_count >= 3
    /\ arg.phrase_count >= 3
    /\ arg.hedging_count >= 3
    /\ ret.increments.transition = Literal(6)

\* C9 as claimed: the classification is "ai" exactly when the returned
\* ai_probability is >= 60, "human" exactly when it is <= 30, and
\* "uncertain" otherwise.
C9_ClassificationByReturnedScore ==
    Returned("analyze_sentence") =>
        /\ (ret.classification = "ai") <=> (ret.ai_probability >= 6000)
        /\ (ret.classification = "human") <=> (ret.ai_probability <= 3000)
        /\ (ret.classification = "uncertain") <=>
              (3000 < ret.ai_probability /\ ret.ai_probability < 6000)

\* C1: analyze_document returns a result for every text, the empty and the
\* whitespace-only one included, without raising, and the ai_probability it
\* returns is at least 0 and at most 100.
C1_TotalAndInRange ==
    Returned("analyze_document") =>
        /\ ~ret.raised
        /\ 0 <= ret.ai_probability
        /\ ret.ai_probability <= 10000

\* the text without a sentence (empty or whitespace only) has been analysed
\* and has its fixed result of 32.5 percent
C1_Witness ==
    /\ Returned("analyze_document")
    /\ arg.sentences = <<>>
    /\ ~ret.raised
    /\ ret.ai_probability = 3250
    /\ ret.document_metrics.total_sentences = 0

\* C2 as claimed: the returned human_probability is 100 minus the returned
\* ai_probability, both after their rounding to two decimals.
C2_HumanIsComplement ==
    (Returned("analyze_document") /\ ~ret.raised) =>
        ret.human_probability = 10000 - ret.ai_probability

\* C10 as claimed: the verdict is the band of the returned ai_probability:
\* "Likely AI-generated" from 70, "Mixed/Uncertain - Contains AI patterns"
\* from 50 to below 70, "Mostly human-written with some AI assistance" from
\* 30 to below 50, "Likely human-written" below 30.
C10_VerdictOfReturnedProbability ==
    (Returned("analyze_document") /\ ~ret.raised) =>
        /\ (ret.verdict = "Likely AI-generated")
              <=> (ret.ai_probability >= 7000)
        /\ (ret.verdict = "Mixed/Uncertain - Contains AI patterns")
              <=> (5000 <= ret.ai_probability /\ ret.ai_probability < 7000)
        /\ (ret.verdict = "Mostly human-written with some AI assistance")
              <=> (3000 <= ret.ai_probability /\ ret.ai_probability < 5000)
        /\ (ret.verdict = "Likely human-written")
              <=> (ret.ai_probability < 3000)

\* the six signal names of the breakdown
SignalNames ==
    {"sentence_uniformity", "vocabulary_diversity", "ai_phrases",
     "transition_density", "passive_voice", "sentence_ai_avg"}

\* 0.15 u + 0.15 v + 0.25 p + 0.15 t + 0.10 a + 0.20 s of a returned
\* breakdown, clamped to [0, 100], in ten-thousandths of a percent
ClaimedSum(b) ==
    LET total == 15 * b.sentence_uniformity + 15 * b.vocabulary_diversity
                 + 25 * b.ai_phrases + 15 * b.transition_density
                 + 10 * b.passive_voice + 20 * b.sentence_ai_avg
    IN  IF total < 0 THEN 0 ELSE IF total > 1000000 THEN 1000000 ELSE total

\* C11: the returned ai_probability is the fixed-weight sum of the six
\* returned breakdown values, clamped to [0, 100] and rounded to two
\* decimals (to either neighbour when the sum lies halfway between two).
C11_WeightedSumOfBreakdown ==
    (Returned("analyze_document") /\ ~ret.raised) =>
        ret.ai_probability \in RoundQ(ClaimedSum(ret.analysis_breakdown), 100)

\* a document whose six signals differ and whose sum is no multiple of a
\* hundredth has been analysed: 21.67, 8.32, 100, 100, 0 and 27.5 give
\* 49.9985, returned as 50.0
C11_Witness ==
    /\ Returned("analyze_document")
    /\ ~ret.raised
    /\ ret.analysis_breakdown.sentence_uniformity = 2167
    /\ ret.analysis_breakdown.vocabulary_diversity = 832
    /\ ret.analysis_breakdown.ai_phrases = 10000
    /\ ret.analysis_breakdown.sentence_ai_avg = 2750
    /\ ret.ai_probability = 5000

\* C12: the returned analysis_breakdown has exactly the six signal names as
\* keys and every value lies in [0, 100].
C12_BreakdownKeysAndRange ==
    (Returned("analyze_document") /\ ~ret.raised) =>
        /\ DOMAIN ret.analysis_breakdown = SignalNames
        /\ \A name \in SignalNames :
              /\ 0 <= ret.analysis_breakdown[name]
              /\ ret.analysis_breakdown[name] <= 10000

\* a document has been analysed whose raw transition score (1.5 times a
\* ratio above 0.6667) exceeds 100 and whose raw vocabulary score (for a
\* type-token ratio above 0.7) is negative
C12_Witness ==
    /\ Returned("analyze_document")
    /\ ~ret.raised
    /\ ret.document_metrics.transition_word_ratio > 6667
    /\ ret.analysis_breakdown.transition_density = 10000
    /\ ret.document_metrics.type_token_ratio > 7000
    /\ ret.analysis_breakdown.vocabulary_diversity = 0

\* the sum of the squared differences of the pairs of the six returned
\* signals: 30 times their sample variance
SignalSpread(b) ==
    LET x == <<b.sentence_uniformity, b.vocabulary_diversity, b.ai_phrases,
               b.transition_density, b.passive_voice, b.sentence_ai_avg>>
    IN  Sum([k \in 1..36 |->
               LET i == 1 + ((k - 1) \div 6)
                   j == 1 + ((k - 1) % 6)
               IN  IF i < j THEN (x[i] - x[j]) * (x[i] - x[j]) ELSE 0])

\* c hundredths is max(50, 100 - d) rounded to two decimals, for the sample
\* standard deviation d with d^2 = spread / 30 (in hundredths)
IsRoundedConfidence(c, spread) ==
    LET r == 10000 - c
    IN  /\ 5000 <= c /\ c <= 10000
        /\ c > 5000 =>
              /\ (2 * r + 1) * (2 * r + 1) * 15 > 2 * spread
              /\ (r > 0 => (2 * r - 1) * (2 * r - 1) * 15 <= 2 * spread)
        /\ c = 5000 => 9999 * 9999 * 15 <= 2 * spread

\* C13 as claimed: the confidence is max(50, 100 - d), lies in [50, 100]
\* and is 100 exactly when the six signals are all equal.
C13_ConfidenceFullIffEqualSignals ==
    (Returned("analyze_document") /\ ~ret.raised) =>
        /\ IsRoundedConfidence(ret.confidence,
                               SignalSpread(ret.analysis_breakdown))
        /\ (ret.confidence = 10000)
              <=> (SignalSpread(ret.analysis_breakdown) = 0)

\* C13, amended: the returned confidence is max(50, 100 - d) rounded to two
\* decimals for the sample standard deviation d of the six returned
\* signals; it lies in [50, 100]; it is 100 when the six signals are all
\* equal, and whenever it is 100 the deviation d is below 0.005.
C13_ConfidenceRounded ==
    (Returned("analyze_document") /\ ~ret.raised) =>
        /\ IsRoundedConfidence(ret.confidence,
                               SignalSpread(ret.analysis_breakdown))
        /\ (SignalSpread(ret.analysis_breakdown) = 0)
              => (ret.confidence = 10000)
        /\ (ret.confidence = 10000)
              => (2 * SignalSpread(ret.analysis_breakdown) < 15)

\* a text of three sentences of 12, 35 and 51 words has been analysed: five
\* signals are 0, the uniformity is 0.01, and the confidence is 100
C13_Witness ==
    /\ Returned("analyze_document")
    /\ ~ret.raised
    /\ ret.analysis_breakdown.sentence_uniformity = 1
    /\ SignalSpread(ret.analysis_breakdown) = 5
    /\ ret.confidence = 10000

\* the document that holds the sentence s and nothing else
Alone(s) == [sentences |-> <<s>>, unique_words |-> Max({0, s.word_count})]

\* the fields of a SentenceAnalysis the sentence's text decides
Judgement(section) ==
    <<section.ai_probability, section.classification, section.indicators>>

\* C15: the ai_probability, classification and indicators that
\* analyze_document gives a sentence are those it gives the same sentence
\* in the document that holds nothing else, hence the same in any two
\* documents that contain the sentence, whatever their other sentences.
C15_SentenceJudgedAlone ==
    (Returned("analyze_document") /\ ~ret.raised) =>
        \A i \in 1..Len(arg.sentences) :
            \A alone \in analyze_document(Alone(arg.sentences[i])) :
                Judgement(ret.highlighted_sections[i])
                    = Judgement(alone.highlighted_sections[1])

\* a document of two sentences has been analysed whose second sentence,
\* without any match of its own, follows one with matches and is judged
\* "human" with no indicator
C15_Witness ==
    /\ Returned("analyze_document")
    /\ ~ret.raised
    /\ Len(arg.sentences) = 2
    /\ arg.sentences[1].transition_count > 0
    /\ arg.sentences[2] = Features(5, 0, 0, 0, 0, 0)
    /\ ret.highlighted_sections[1].indicators # <<>>
    /\ ret.highlighted_sections[2].indicators = <<>>
    /\ ret.highlighted_sections[2].ai_probability = 0

(***************************************************************************)
(* Claims about analyze_document on texts.                                 *)
(***************************************************************************)
\* the span a section carries
SpanOf(section) ==
    [text  |-> section.text,
     start |-> section.start_index,
     end   |-> section.end_index]

\* C16: highlighted_sections holds exactly one SentenceAnalysis per span of
\* split_into_sentences(text), in the order of the spans, so with strictly
\* increasing start_index, and as many as document_metrics.total_sentences.
C16_OneSectionPerSpan ==
    (Returned("analyze_document_text") /\ ~ret.raised) =>
        LET sections == ret.highlighted_sections
            spans == split_into_sentences(arg)
        IN  /\ Len(sections) = Len(spans)
            /\ \A i \in 1..Len(sections) : SpanOf(sections[i]) = spans[i]
            /\ \A i \in 1..(Len(sections) - 1) :
                  sections[i].start_index < sections[i + 1].start_index
            /\ Len(sections) = ret.document_metrics.total_sentences

\* a text of two sentences analysed, the first one classified human
C16_Witness ==
    /\ Returned("analyze_document_text")
    /\ ~ret.raised
    /\ Len(ret.highlighted_sections) = 2
    /\ ret.highlighted_sections[1].classification = "human"
    /\ ret.highlighted_sections[2].start_index
          > ret.highlighted_sections[1].end_index

\* whether some sentence of the result carries the tag with a count above 0
Tagged(result, tag) ==
    \E i \in 1..Len(result.highlighted_sections) :
       \E k \in 1..Len(result.highlighted_sections[i].indicators) :
          /\ result.highlighted_sections[i].indicators[k].tag = tag
          /\ result.highlighted_sections[i].indicators[k].count > 0

\* C18: analysing FormalText yields a result in which each of the tags
\* transition_words, ai_phrases and formal_words appears with a count above
\* zero in the indicators of at least one sentence.
C18_FormalTextTags ==
    (Returned("analyze_document_text") /\ arg = FormalText) =>
        /\ ~ret.raised
        /\ Tagged(ret, "transition_words")
        /\ Tagged(ret, "ai_phrases")
        /\ Tagged(ret, "formal_words")

\* what the call returns instead: transition_words and formal_words on both
\* sentences, ai_phrases on none
C18_NoPhraseTag ==
    (Returned("analyze_document_text") /\ arg = FormalText) =>
        /\ ~ret.raised
        /\ Tagged(ret, "transition_words")
        /\ ~Tagged(ret, "ai_phrases")
        /\ Tagged(ret, "formal_words")
        /\ ret.analysis_breakdown.ai_phrases = 0

\* C19: analysing CatText yields exactly 2 sentences, no AI phrase and no
\* transition density in the breakdown, an ai_probability below 50 and one
\* of the two human-written verdicts.
C19_CatTextHuman ==
    (Returned("analyze_document_text") /\ arg = CatText) =>
        /\ ~ret.raised
        /\ Len(ret.highlighted_sections) = 2
        /\ ret.document_metrics.total_sentences = 2
        /\ ret.analysis_breakdown.ai_phrases = 0
        /\ ret.analysis_breakdown.transition_density = 0
        /\ ret.ai_probability < 5000
        /\ ret.verdict \in {"Likely human-written",
                             "Mostly human-written with some AI assistance"}

\* CatText analysed: two sentences at offsets 0 and 24, 4.59 per cent
C19_Witness ==
    /\ Returned("analyze_document_text")
    /\ arg = CatText
    /\ ~ret.raised
    /\ ret.highlighted_sections[1].start_index = 0
    /\ ret.highlighted_sections[2].start_index = 24
    /\ ret.ai_probability = 459

(***************************************************************************)
(* Claims about the endpoints.                                             *)
(***************************************************************************)
Endpoints == {"detect_ai_text", "detect_ai_file", "analyze_batch"}

\* len(text.strip())
StrippedLength(text) == Len(Strip(text))

\* C20: every caller enforces the minimum length before it invokes the
\* detector: detect-text and detect-file reject a text of stripped length
\* below 50 with a 400 and call neither analyze_document nor
\* save_detection, and no endpoint hands a text of stripped length below
\* 50 to analyze_document.
C20_MinimumLengthEnforced ==
    /\ ((Returned("detect_ai_text") \/ Returned("detect_ai_file"))
           /\ StrippedLength(arg.text) < 50) =>
          /\ ret.status = 400
          /\ ret.analyzed = <<>>
          /\ ret.saved = <<>>
    /\ (pc = "returned" /\ op \in Endpoints) =>
          \A k \in 1..Len(ret.analyzed) :
             StrippedLength(ret.analyzed[k]) >= 50

\* the part of C20 about detect-text and detect-file, which holds
C20_DetectEndpointsEnforce ==
    ((Returned("detect_ai_text") \/ Returned("detect_ai_file"))
       /\ StrippedLength(arg.text) < 50) =>
        /\ ret.status = 400
        /\ ret.analyzed = <<>>
        /\ ret.saved = <<>>

\* the texts of stripped length 20 or more, in order
RECURSIVE TwentyOrMore(_)
TwentyOrMore(texts) ==
    IF texts = <<>> THEN <<>>
    ELSE IF StrippedLength(Head(texts)) >= 20
    THEN <<Head(texts)>> \o TwentyOrMore(Tail(texts))
    ELSE TwentyOrMore(Tail(texts))

\* analyze_batch analyses every text of stripped length 20 or more
C20_BatchThreshold ==
    Returned("analyze_batch") =>
        \/ ret.status = 400 /\ Len(arg) > 20
        \/ /\ ret.status = 200
           /\ ret.analyzed = TwentyOrMore(arg)

(***************************************************************************)
(* Claims about the shared engine.                                         *)
(***************************************************************************)
\* C14: analyze_document is deterministic: after any sequence of earlier
\* calls on the shared engine, two calls with the same text return equal
\* DetectionResults.
C14_SameTextSameResult ==
    /\ \A text \in SharedTexts : Cardinality(history[text]) <= 1
    /\ \A task \in Tasks :
          frames[task].pc = "returned" =>
              history[frames[task].text] \subseteq {frames[task].result}

\* a second call on HedgedText has returned, after calls on it and on
\* PassiveText returned
C14_Witness ==
    /\ frames["first"].pc = "returned"
    /\ frames["first"].text = HedgedText
    /\ history[HedgedText] # {}
    /\ history[PassiveText] # {}

\* C17: calls of analyze_document run together on the shared engine under
\* any interleaving write no attribute of the engine, and each returns what
\* it returns when it runs alone.
C17_ConcurrentCallsAsAlone ==
    /\ engine = detection_engine
    /\ \A task \in Tasks :
          frames[task].pc = "returned" =>
              frames[task].result \in ResultAlone[frames[task].text]

\* two calls on different texts have returned, each having seen the other
\* run while it was in flight
C17_Witness ==
    /\ frames["first"].pc = "returned"
    /\ frames["second"].pc = "returned"
    /\ frames["first"].overlapped
    /\ frames["second"].overlapped
    /\ frames["first"].text = HedgedText
    /\ frames["second"].text = PassiveText

(***************************************************************************)
(* Claims about analyze_batch.                                             *)
(***************************************************************************)
\* the entries of a batch response whose result is not None
Analysed(results) == {k \in 1..Len(results) : ~IsNone(results[k].result)}

\* C21: a batch of at most 20 texts gets one entry per text in input order,
\* entry i with index i; a text of stripped length below 20 gets an entry
\* with an error and no result and the loop goes on, every other text gets
\* the result analyze_document gives for it alone, and total_analyzed is the
\* number of entries with a result; a batch of more than 20 texts is
\* rejected with a 400 and nothing is analysed.
C21_BatchEntries ==
    Returned("analyze_batch") =>
        IF Len(arg) > 20
        THEN ret.status = 400 /\ ret.analyzed = <<>>
        ELSE /\ ret.status = 200
             /\ Len(ret.results) = Len(arg)
             /\ \A k \in 1..Len(arg) :
                   /\ ret.results[k].index = k - 1
                   /\ IF StrippedLength(arg[k]) < 20
                      THEN /\ ret.results[k].error # "None"
                           /\ IsNone(ret.results[k].result)
                      ELSE /\ ret.results[k].error = "None"
                           /\ ret.results[k].result
                                 \in analyze_document_text(arg[k])
             /\ ret.total_analyzed = Cardinality(Analysed(ret.results))

\* a batch whose first text is too short and whose second is analysed has
\* returned: two entries, one counted
C21_Witness ==
    /\ Returned("analyze_batch")
    /\ arg = <<NineteenText, PassiveText>>
    /\ ret.status = 200
    /\ IsNone(ret.results[1].result)
    /\ ~IsNone(ret.results[2].result)
    /\ ret.total_analyzed = 1

\* a batch of twenty-one texts has been rejected
C21_WitnessRejected ==
    /\ Returned("analyze_batch")
    /\ Len(arg) = 21
    /\ ret.status = 400

(***************************************************************************)
(* Claims about the signals of analyze_sentence.                           *)
(***************************************************************************)
\* the indicators with the given tag, in order
RECURSIVE TagsOf(_, _)
TagsOf(indicators, tag) ==
    IF indicators = <<>> THEN <<>>
    ELSE (IF Head(indicators).tag = tag THEN <<Head(indicators)>> ELSE <<>>)
            \o TagsOf(Tail(indicators), tag)

\* C22: the passive-voice check adds 0.1 and the tag passive_voice with the
\* number of passive matches exactly when passive_count / word_count is
\* above 0.1; otherwise (no passive match, no word, a ratio of 0.1 or less)
\* it adds nothing and no tag; the amount is 0.1 whatever the count.  In
\* TenthText the first sentence has two matches, of two different patterns,
\* among six words, and the second one match among ten words.
C22_PassiveSignal ==
    /\ Returned("analyze_sentence") =>
          IF arg.word_count > 0 /\ 10 * arg.passive_count > arg.word_count
          THEN /\ ret.increments.passive = Literal(2)
               /\ TagsOf(ret.indicators, "passive_voice")
                     = <<[tag |-> "passive_voice",
                          count |-> arg.passive_count]>>
          ELSE /\ ret.increments.passive = Zero
               /\ TagsOf(ret.indicators, "passive_voice") = <<>>
    /\ (Returned("analyze_document_text") /\ arg = TenthText) =>
          /\ Len(ret.highlighted_sections) = 2
          /\ ret.highlighted_sections[1].indicators
                = <<[tag |-> "passive_voice", count |-> 2]>>
          /\ ret.highlighted_sections[1].ai_probability = 1000
          /\ ret.highlighted_sections[2].indicators = <<>>
          /\ ret.highlighted_sections[2].ai_probability = 0

\* a sentence of ten words with one passive match has been analysed: the
\* ratio is 0.1 and nothing is added
C22_Witness ==
    /\ Returned("analyze_sentence")
    /\ arg.word_count = 10
    /\ arg.passive_count = 1
    /\ ret.increments.passive = Zero

\* a sentence with three passive matches among nine words has been
\* analysed: 0.1 is added, as for one match
C22_WitnessFlat ==
    /\ Returned("analyze_sentence")
    /\ arg.word_count = 9
    /\ arg.passive_count = 3
    /\ ret.increments.passive = Literal(2)

\* TenthText has been analysed
C22_WitnessText ==
    /\ Returned("analyze_document_text")
    /\ arg = TenthText

\* the tags in the order the claim lists them
TagOrder ==
    <<"transition_words", "ai_phrases", "hedging", "passive_voice",
      "typical_ai_length", "formal_words">>

\* the place of a tag in TagOrder, 0 for any other tag
Position(tag) ==
    IF \E k \in 1..Len(TagOrder) : TagOrder[k] = tag
    THEN CHOOSE k \in 1..Len(TagOrder) : TagOrder[k] = tag
    ELSE 0

\* the indicators are tags of TagOrder in that order, none twice
OrderedTags(indicators) ==
    /\ \A i \in 1..Len(indicators) : Position(indicators[i].tag) > 0
    /\ \A i \in 1..Len(indicators) : \A j \in (i + 1)..Len(indicators) :
          Position(indicators[i].tag) < Position(indicators[j].tag)

\* the counted tag is in the indicators, with the count n > 0, exactly when
\* the check added a positive amount
CountedTag(indicators, tag, n, added) ==
    IF FLess(Zero, added)
    THEN n > 0 /\ TagsOf(indicators, tag) = <<[tag |-> tag, count |-> n]>>
    ELSE TagsOf(indicators, tag) = <<>>

\* C23: the indicators of a SentenceAnalysis are a subsequence of
\* transition_words, ai_phrases, hedging, passive_voice, typical_ai_length,
\* formal_words in that order with no tag twice; a counted tag is present
\* exactly when its check added a positive amount and carries the positive
\* match count; typical_ai_length is present exactly when the word count is
\* from 15 to 25.  The sections of a document keep the order.
C23_IndicatorsOrderedSubsequence ==
    /\ Returned("analyze_sentence") =>
          /\ OrderedTags(ret.indicators)
          /\ CountedTag(ret.indicators, "transition_words",
                        arg.transition_count, ret.increments.transition)
          /\ CountedTag(ret.indicators, "ai_phrases",
                        arg.phrase_count, ret.increments.phrase)
          /\ CountedTag(ret.indicators, "hedging",
                        arg.hedging_count, ret.increments.hedging)
          /\ CountedTag(ret.indicators, "passive_voice",
                        arg.passive_count, ret.increments.passive)
          /\ CountedTag(ret.indicators, "formal_words",
                        arg.formal_count, ret.increments.formal)
          /\ (TagsOf(ret.indicators, "typical_ai_length") # <<>>)
                <=> (15 <= arg.word_count /\ arg.word_count <= 25)
    /\ ((Returned("analyze_document") \/ Returned("analyze_document_text"))
          /\ ~ret.raised) =>
          \A i \in 1..Len(ret.highlighted_sections) :
             OrderedTags(ret.highlighted_sections[i].indicators)

\* a sentence of fifteen words in which every check applies has been
\* analysed: all six tags
C23_Witness ==
    /\ Returned("analyze_sentence")
    /\ arg.word_count = 15
    /\ Len(ret.indicators) = 6

(***************************************************************************)
(* Claims about calculate_sentence_length_stats.                           *)
(***************************************************************************)
\* the sum of (x - y)^2 over the pairs of xs, by a double loop
RECURSIVE SquaredDifferences(_, _, _)
SquaredDifferences(xs, i, j) ==
    IF i > Len(xs) THEN 0
    ELSE IF j > Len(xs) THEN SquaredDifferences(xs, i + 1, i + 2)
    ELSE (xs[i] - xs[j]) * (xs[i] - xs[j])
            + SquaredDifferences(xs, i, j + 1)

\* C24: calculate_sentence_length_stats never raises; for no sentence it
\* returns (0.0, 0.0), for one sentence (its word count, 0.0), and for two
\* or more the mean and the sample standard deviation of the word counts
\* (the variance with divisor n - 1: the squared differences of all pairs
\* over n (n - 1)).
C24_LengthStatsNeverRaises ==
    Returned("calculate_sentence_length_stats") =>
        /\ ~ret.raised
        /\ LET n == Len(arg)
               lengths == [i \in 1..n |-> arg[i].word_count]
           IN  IF n = 0
               THEN ret.mean.num = 0 /\ ret.var.num = 0
               ELSE IF n = 1
               THEN /\ ret.mean.num = lengths[1] * ret.mean.den
                    /\ ret.var.num = 0
               ELSE /\ ret.mean.num * n = Sum(lengths) * ret.mean.den
                    /\ ret.var.num * n * (n - 1)
                          = SquaredDifferences(lengths, 1, 2) * ret.var.den

\* the statistics of two sentences of different lengths have been returned
C24_Witness ==
    /\ Returned("calculate_sentence_length_stats")
    /\ Len(arg) = 2
    /\ arg[1].word_count # arg[2].word_count
    /\ ret.var.num > 0

\* the statistics of one sentence have been returned
C24_WitnessSingle ==
    /\ Returned("calculate_sentence_length_stats")
    /\ Len(arg) = 1
    /\ arg[1].word_count > 0
    /\ ~ret.raised

(***************************************************************************)
(* Claims about the errors of the endpoints.                               *)
(***************************************************************************)
\* the request is one the handler rejects: an unsupported file name or a
\* text of stripped length below 50
ClientError ==
    \/ Returned("detect_ai_text") /\ StrippedLength(arg.text) < 50
    \/ /\ Returned("detect_ai_file")
       /\ \/ ~SupportedFile(arg.filename)
          \/ StrippedLength(arg.text) < 50

\* C25: in detect-text and detect-file the 400 raised for a short text or an
\* unsupported file reaches the client as that 400 with its own detail and
\* never as a 5xx; any other exception raised during handling is answered
\* with a 500 whose detail carries the prefix of the endpoint and the
\* message of the exception; there is no other answer than 200, 400 and
\* 500.
C25_ClientErrorsPassThrough ==
    (Returned("detect_ai_text") \/ Returned("detect_ai_file")) =>
        /\ ret.status \in {200, 400, 500}
        /\ ClientError <=> ret.status = 400
        /\ ret.status = 400 =>
              ret.detail \in
                 {"Text must be at least 50 characters for meaningful analysis",
                  "Only .txt and .md files are supported",
                  "File content must be at least 50 characters"}
        /\ ret.status = 500 =>
              /\ ret.detail = IF op = "detect_ai_text"
                              THEN "Analysis failed"
                              ELSE "File analysis failed"
              /\ ret.cause = "ValidationError"
              /\ arg.insert = "row, id not a str"

\* a short file content has been refused with the 400 of the handler
C25_Witness ==
    /\ Returned("detect_ai_file")
    /\ SupportedFile(arg.filename)
    /\ StrippedLength(arg.text) < 50
    /\ ret.status = 400
    /\ ret.detail = "File content must be at least 50 characters"

\* a response that could not be built has been answered with a 500
C25_WitnessServerError ==
    /\ Returned("detect_ai_text")
    /\ ret.status = 500
    /\ ret.cause = "ValidationError"

(***************************************************************************)
(* Claims about the weighted sum and its clamp.                            *)
(***************************************************************************)
\* C26: the weights sum to 1.00 and every signal lies in [0, 100], so the
\* weighted sum computed by analyze_document lies in [0, 100] and
\* max(0, min(100, .)) leaves every double it can be as it is.
C26_ClampLeavesValue ==
    ((Returned("analyze_document") \/ Returned("analyze_document_text"))
       /\ ~ret.raised) =>
        /\ 0 <= ret.weighted_sum
        /\ ret.weighted_sum <= Hundred
        /\ \A x \in WeightedSums(ret.analysis_breakdown) :
              ClampProbability(x) = x

\* the six weights sum to 1.00
C26_WeightsSumToOne ==
    Weights.sentence_uniformity + Weights.vocabulary_diversity
       + Weights.ai_phrases + Weights.transition_density
       + Weights.passive_voice + Weights.sentence_ai_avg = 100

\* a document whose six signals are all 100 has been analysed: the sum is
\* 100, the largest there is
C26_Witness ==
    /\ Returned("analyze_document")
    /\ ~ret.raised
    /\ \A name \in SignalNames : ret.analysis_breakdown[name] = 10000
    /\ ret.weighted_sum = Hundred
    /\ ret.ai_probability = 10000

\* a document whose six signals are all 0 has been analysed
C26_WitnessZero ==
    /\ Returned("analyze_document")
    /\ ~ret.raised
    /\ ret.weighted_sum = 0
    /\ ret.ai_probability = 0

(***************************************************************************)
(* Claims about the empty text.                                            *)
(***************************************************************************)
\* C27: for the empty string and for a text of whitespace only,
\* analyze_document returns no highlighted section, total_sentences = 0 and
\* total_words = 0, the breakdown sentence_uniformity = 50,
\* vocabulary_diversity = 100, ai_phrases = 0, transition_density = 0,
\* passive_voice = 0, sentence_ai_avg = 50, ai_probability = 32.5,
\* human_probability = 67.5 and the verdict "Mostly human-written with some
\* AI assistance".
C27_EmptyTextResult ==
    (Returned("analyze_document_text") /\ OnlyWhitespace(arg)) =>
        /\ ~ret.raised
        /\ ret.highlighted_sections = <<>>
        /\ ret.document_metrics.total_sentences = 0
        /\ ret.document_metrics.total_words = 0
        /\ ret.analysis_breakdown =
              [sentence_uniformity  |-> 5000,
               vocabulary_diversity |-> 10000,
               ai_phrases           |-> 0,
               transition_density   |-> 0,
               passive_voice        |-> 0,
               sentence_ai_avg      |-> 5000]
        /\ ret.ai_probability = 3250
        /\ ret.human_probability = 6750
        /\ ret.verdict = "Mostly human-written with some AI assistance"

\* a text of two blanks has been analysed
C27_Witness ==
    /\ Returned("analyze_document_text")
    /\ arg = <<" ", " ">>
    /\ ret.ai_probability = 3250

\* the empty string has been analysed
C27_WitnessEmpty ==
    /\ Returned("analyze_document_text")
    /\ arg = <<>>
    /\ ret.ai_probability = 3250

\* a text of tabs and line ends has been analysed
C27_WitnessBlank ==
    /\ Returned("analyze_document_text")
    /\ arg \in BlankTexts
    /\ ret.ai_probability = 3250

(***************************************************************************)
(* Claims about the values of the sentence score.                          *)
(***************************************************************************)
\* the sum of the six contributions as decimals, in twentieths
Contributions(increments) ==
    increments.transition.k + increments.phrase.k + increments.hedging.k
       + increments.passive.k + increments.length.k + increments.formal.k

\* C28: every ai_probability of analyze_sentence is a multiple of 5 from 0
\* to 100; the contributions are 0.10, 0.20 or 0.30, then 0.15, 0.30 or
\* 0.40, then 0.10 or 0.20, then 0.10, then 0.05, then 0.10 or 0.20 (or
\* nothing), multiples of 0.05 that sum to 1.25 at most; the probability is
\* 100 times their sum, or 100 where the sum is above 1.0.
C28_MultiplesOfFive ==
    Returned("analyze_sentence") =>
        /\ ret.ai_probability % 500 = 0
        /\ 0 <= ret.ai_probability
        /\ ret.ai_probability <= 10000
        /\ ret.increments.transition.k \in {0, 2, 4, 6}
        /\ ret.increments.phrase.k \in {0, 3, 6, 8}
        /\ ret.increments.hedging.k \in {0, 2, 4}
        /\ ret.increments.passive.k \in {0, 2}
        /\ ret.increments.length.k \in {0, 1}
        /\ ret.increments.formal.k \in {0, 2, 4}
        /\ Contributions(ret.increments) <= 25
        /\ ret.ai_probability
              = IF Contributions(ret.increments) > 20 THEN 10000
                ELSE 500 * Contributions(ret.increments)

\* a sentence whose contributions sum to 1.25 has been analysed: 100
C28_Witness ==
    /\ Returned("analyze_sentence")
    /\ Contributions(ret.increments) = 25
    /\ ret.ai_probability = 10000

(***************************************************************************)
(* Claims about persistence.                                               *)
(***************************************************************************)
\* the insert fails: it raises or returns no row
InsertFails(insert) == insert \in {"no rows", "raises"}

\* C29: when the insert of save_detection raises or returns no row,
\* save_detection returns None and does not raise, and detect_ai_text
\* answers an accepted text with success = True, the result of
\* analyze_document and detection_id = None; the text handed to the insert
\* is the first 5000 characters of the input, the whole input if shorter.
C29_PersistenceFailureTolerated ==
    /\ Returned("save_detection") =>
          /\ ~ret.raised
          /\ InsertFails(arg.insert) => ret.detection_id = "None"
          /\ Len(ret.stored.text) <= 5000
          /\ Len(ret.stored.text)
                = IF Len(arg.text) < 5000 THEN Len(arg.text) ELSE 5000
          /\ \A i \in 1..Len(ret.stored.text) :
                ret.stored.text[i] = arg.text[i]
    /\ (Returned("detect_ai_text") /\ InsertFails(arg.insert)
          /\ StrippedLength(arg.text) >= 50) =>
          /\ ret.status = 200
          /\ ret.success
          /\ ret.result \in analyze_document_text(arg.text)
          /\ ret.detection_id = "None"
          /\ \A k \in 1..Len(ret.saved) : Len(ret.saved[k].text) <= 5000

\* detect_ai_text has answered a request whose insert raised
C29_Witness ==
    /\ Returned("detect_ai_text")
    /\ arg.insert = "raises"
    /\ ret.status = 200
    /\ ret.detection_id = "None"

\* save_detection has been called with a text of 5001 characters
C29_WitnessLong ==
    /\ Returned("save_detection")
    /\ Len(arg.text) = 5001
    /\ Len(ret.stored.text) = 5000

(***************************************************************************)
(* Claims about deep review.                                               *)
(***************************************************************************)
\* the sections with the given probabilities
SectionsAbove(sections, p) ==
    {i \in 1..Len(sections) : sections[i].ai_probability > p}

\* C30: perform_ai_content_analysis flags a section only when its
\* ai_probability is above 60, so every flagged section is classified
\* "ai"; a sentence of exactly 60 is classified "ai" and is not flagged; if
\* the detector raises, the value returned is ai_probability = 0,
\* human_probability = 100, verdict "Unable to analyze", confidence = 0 and
\* no flagged section.
C30_FlaggedAboveSixty ==
    /\ Returned("analyze_sentence") =>
          /\ ret.ai_probability >= 6000 => ret.classification = "ai"
    /\ Returned("perform_ai_content_analysis") =>
          IF arg.detector = "raises"
          THEN /\ ret.ai_probability = 0
               /\ ret.human_probability = 10000
               /\ ret.verdict = "Unable to analyze"
               /\ ret.confidence = 0
               /\ ret.flagged_sections = <<>>
          ELSE /\ \A i \in 1..Len(ret.flagged_sections) :
                     /\ ret.flagged_sections[i].ai_probability > 6000
                     /\ ret.flagged_sections[i].classification = "ai"
               /\ \A result \in analyze_document_text(arg.text) :
                     /\ Len(ret.flagged_sections)
                           = Cardinality(SectionsAbove(
                                result.highlighted_sections, 6000))
                     /\ \A i \in 1..Len(result.highlighted_sections) :
                           result.highlighted_sections[i].ai_probability
                              = 6000
                           => result.highlighted_sections[i].classification
                                 = "ai"

\* SixtyText has been reviewed: of its sentences of 60.0 and 70.0 the
\* second alone is flagged
C30_Witness ==
    /\ Returned("perform_ai_content_analysis")
    /\ arg.text = SixtyText
    /\ arg.detector = "returns"
    /\ Len(ret.flagged_sections) = 1
    /\ ret.flagged_sections[1].ai_probability = 7000

\* the detector has raised and the fallback has been returned
C30_WitnessFallback ==
    /\ Returned("perform_ai_content_analysis")
    /\ arg.detector = "raises"
    /\ ret.verdict = "Unable to analyze"

\* a sentence of exactly 60.0 has been analysed
C30_WitnessSixty ==
    /\ Returned("analyze_sentence")
    /\ ret.ai_probability = 6000
    /\ ret.classification = "ai"

=============================================================================
